---- MODULE Spec2Model ----
(***************************************************************************)
(* Model of the <large-display-card> custom element                        *)
(* (src/src/large-number-card.ts, class LargeDisplayCard, lines 275-928,   *)
(* with DEFAULT_CONFIG and FONT_REGISTRY of lines 123-188).                *)
(*                                                                         *)
(* JavaScript values are tagged records, so that values of different       *)
(* JavaScript types can be compared.  Numbers are fixed-point: a number is *)
(* held in thousandths (21.456 is Num(21456)), which is exact for every    *)
(* input of the model (at most three fraction digits).                     *)
(***************************************************************************)
EXTENDS Integers, Sequences, FiniteSets, Bags, TLC

----------------------------------------------------------------------------
(* JavaScript values *)

Undefined == [t |-> "undefined"]
Null == [t |-> "null"]
NaN == [t |-> "nan"]
Str(s) == [t |-> "string", v |-> s]
Num(m) == [t |-> "number", v |-> m]
Bool(b) == [t |-> "boolean", v |-> b]
Obj(f) == [t |-> "object", v |-> f]
Arr(e) == [t |-> "array", v |-> e]

\* the empty object literal {}
EmptyObj == Obj(<<>>)

\* a whole number n as a JavaScript number
Whole(n) == Num(n * 1000)

IsNullish(v) == v.t \in {"undefined", "null"}

\* typeof v === 'object' (null included, as in JavaScript)
TypeofObject(v) == v.t \in {"object", "array", "null"}

IsArray(v) == v.t = "array"

\* ToBoolean
Truthy(v) ==
  CASE v.t = "string" -> v.v # ""
    [] v.t = "number" -> v.v # 0
    [] v.t = "boolean" -> v.v
    [] v.t \in {"object", "array"} -> TRUE
    [] OTHER -> FALSE

\* body(x) for x the value of v: a const declaration, whose initializer is
\* evaluated once and then named
With(v, body(_)) == CHOOSE r \in {body(x) : x \in {v}} : TRUE

\* a ?? b
Coalesce(a, b) == IF IsNullish(a) THEN b ELSE a

\* a || b
OrElse(a, b) == IF Truthy(a) THEN a ELSE b

----------------------------------------------------------------------------
(* Strings *)

Digit(d) == SubSeq("0123456789", d + 1, d + 1)

RECURSIVE NatStr(_)
\* the decimal digits of a natural number
NatStr(n) == IF n < 10 THEN Digit(n) ELSE NatStr(n \div 10) \o Digit(n % 10)

RECURSIVE Pow10(_)
Pow10(d) == IF d = 0 THEN 1 ELSE 10 * Pow10(d - 1)

RECURSIVE PadLeft(_, _)
\* s padded on the left with zeros to at least w characters
PadLeft(s, w) == IF Len(s) >= w THEN s ELSE PadLeft("0" \o s, w)

RECURSIVE StripZeros(_)
\* a fraction's digits without its trailing zeros
StripZeros(s) ==
  IF s # "" /\ SubSeq(s, Len(s), Len(s)) = "0"
  THEN StripZeros(SubSeq(s, 1, Len(s) - 1))
  ELSE s

Abs(m) == IF m < 0 THEN -m ELSE m

\* Number.prototype.toString of a number held in thousandths: 21456 is
\* "21.456", 21500 is "21.5", 21000 is "21"
NumberToString(m) ==
  LET a == Abs(m)
      frac == StripZeros(PadLeft(NatStr(a % 1000), 3))
  IN  (IF m < 0 THEN "-" ELSE "")
        \o NatStr(a \div 1000)
        \o (IF frac = "" THEN "" ELSE "." \o frac)

RECURSIVE Zeros(_)
Zeros(n) == IF n <= 0 THEN "" ELSE "0" \o Zeros(n - 1)

\* toFixed cutting the digits off instead of rounding
toFixedTruncating(m, d) ==
  LET a == Abs(m)
      k == IF d < 3 THEN d ELSE 3
      n == (a * Pow10(k)) \div 1000
  IN  (IF m < 0 THEN "-" ELSE "")
        \o NatStr(n \div Pow10(k))
        \o (IF d = 0 THEN "" ELSE "." \o PadLeft(NatStr(n % Pow10(k)), k) \o Zeros(d - k))

\* Number.prototype.toFixed(d) for an integer d in 0..100: the sign is taken
\* first, then n is the integer nearest to |x| * 10^d (the larger one on a
\* tie), written with d fraction digits.  A number in thousandths has only
\* zeros after its third fraction digit, so the rounding is done at
\* min(d, 3) digits and the other d - 3 digits are zeros.
\* JavaScript rounds the binary double nearest to the decimal: the two
\* agree unless the decimal is a tie that no double holds exactly (1.005 at
\* d = 2), and no input of the model is one.
toFixed(m, d) ==
  LET a == Abs(m)
      k == IF d < 3 THEN d ELSE 3
      n == (a * Pow10(k) + 500) \div 1000
      whole == NatStr(n \div Pow10(k))
      frac == PadLeft(NatStr(n % Pow10(k)), k) \o Zeros(d - k)
  IN  (IF m < 0 THEN "-" ELSE "")
        \o whole
        \o (IF d = 0 THEN "" ELSE "." \o frac)

IsDigitChar(c) == c \in {"0", "1", "2", "3", "4", "5", "6", "7", "8", "9"}

DigitVal(c) == CHOOSE d \in 0..9 : Digit(d) = c

IsSpaceChar(c) == c \in {" ", "\t", "\n"}

RECURSIVE TrimLeft(_)
TrimLeft(s) == IF s # "" /\ IsSpaceChar(Head(s)) THEN TrimLeft(Tail(s)) ELSE s

RECURSIVE TrimRight(_)
TrimRight(s) ==
  IF s # "" /\ IsSpaceChar(SubSeq(s, Len(s), Len(s)))
  THEN TrimRight(SubSeq(s, 1, Len(s) - 1))
  ELSE s

\* String.prototype.trim
Trim(s) == TrimRight(TrimLeft(s))

\* String.prototype.includes
Includes(s, sub) ==
  \E i \in 1..(Len(s) - Len(sub) + 1) : SubSeq(s, i, i + Len(sub) - 1) = sub

AllDigits(s) == \A i \in 1..Len(s) : IsDigitChar(SubSeq(s, i, i))

RECURSIVE DigitsVal(_)
DigitsVal(s) ==
  IF s = "" THEN 0
  ELSE 10 * DigitsVal(SubSeq(s, 1, Len(s) - 1)) + DigitVal(SubSeq(s, Len(s), Len(s)))

\* the position of the first "." of s, 0 when there is none
DotAt(s) ==
  IF \E i \in 1..Len(s) : SubSeq(s, i, i) = "."
  THEN CHOOSE i \in 1..Len(s) :
         /\ SubSeq(s, i, i) = "."
         /\ \A j \in 1..(i - 1) : SubSeq(s, j, j) # "."
  ELSE 0

\* an unsigned decimal literal (digits, at most three of them after the
\* point) as a number in thousandths; NaN for anything else
UnsignedToNumber(s) ==
  With(DotAt(s), LAMBDA dot :
    LET whole == IF dot = 0 THEN s ELSE SubSeq(s, 1, dot - 1)
        frac == IF dot = 0 THEN "" ELSE SubSeq(s, dot + 1, Len(s))
    IN  IF /\ AllDigits(whole) /\ AllDigits(frac)
           /\ whole \o frac # ""
           /\ Len(frac) <= 3
        THEN Num(DigitsVal(whole) * 1000 + DigitsVal(frac) * Pow10(3 - Len(frac)))
        ELSE NaN)

\* StringToNumber: white space is trimmed, the empty string is 0, a signed
\* decimal literal is its value, any other text is NaN
StringToNumber(s) ==
  With(Trim(s), LAMBDA t :
    IF t = "" THEN Num(0)
    ELSE LET signed == Head(t) \in {"-", "+"}
         IN  With(UnsignedToNumber(IF signed THEN Tail(t) ELSE t), LAMBDA u :
               IF signed /\ Head(t) = "-" /\ u.t = "number" THEN Num(-u.v) ELSE u))

RECURSIVE StringOf(_)
\* String(v)
StringOf(v) ==
  CASE v.t = "string" -> v.v
    [] v.t = "number" -> NumberToString(v.v)
    [] v.t = "boolean" -> IF v.v THEN "true" ELSE "false"
    [] v.t = "null" -> "null"
    [] v.t = "undefined" -> "undefined"
    [] v.t = "nan" -> "NaN"
    [] v.t = "object" -> "[object Object]"
    [] v.t = "array" ->
         IF v.v = <<>> THEN ""
         ELSE LET h == IF IsNullish(Head(v.v)) THEN "" ELSE StringOf(Head(v.v))
              IN  IF Len(v.v) = 1 THEN h ELSE h \o "," \o StringOf(Arr(Tail(v.v)))

\* Number(v)
ToNumber(v) ==
  CASE v.t = "number" -> v
    [] v.t = "string" -> StringToNumber(v.v)
    [] v.t = "boolean" -> IF v.v THEN Whole(1) ELSE Whole(0)
    [] v.t = "null" -> Whole(0)
    [] v.t = "array" -> StringToNumber(StringOf(v))
    [] OTHER -> NaN

\* Number.isFinite
IsFinite(v) == v.t = "number"

\* Number.isInteger
IsInteger(v) == v.t = "number" /\ v.v % 1000 = 0

----------------------------------------------------------------------------
(* Property access *)

\* the index keys "0" .. "n-1" of a string or an array of length n
IndexKeys(n) == {NatStr(i) : i \in 0..(n - 1)}

IndexOf(k, n) == CHOOSE i \in 0..(n - 1) : NatStr(i) = k

\* Object.keys(v)
Keys(v) ==
  CASE v.t = "object" -> DOMAIN v.v
    [] v.t = "array" -> IndexKeys(Len(v.v))
    [] v.t = "string" -> IndexKeys(Len(v.v))
    [] OTHER -> {}

\* v[k] for a v that is neither null nor undefined
Get(v, k) ==
  CASE v.t = "object" -> IF k \in DOMAIN v.v THEN v.v[k] ELSE Undefined
    [] v.t = "array" ->
         IF k \in IndexKeys(Len(v.v)) THEN v.v[IndexOf(k, Len(v.v)) + 1] ELSE Undefined
    [] v.t = "string" ->
         IF k \in IndexKeys(Len(v.v))
         THEN Str(SubSeq(v.v, IndexOf(k, Len(v.v)) + 1, IndexOf(k, Len(v.v)) + 1))
         ELSE Undefined
    [] OTHER -> Undefined

\* v?.[k]
GetQ(v, k) == IF IsNullish(v) THEN Undefined ELSE Get(v, k)

\* { ...v }: the own enumerable properties of v as a new object
Spread(v) == [k \in Keys(v) |-> Get(v, k)]

\* o with o[k] = x done
Put(o, k, x) == Obj([j \in DOMAIN o.v \cup {k} |-> IF j = k THEN x ELSE o.v[j]])

----------------------------------------------------------------------------
(* const: DEFAULT_CONFIG, FONT_REGISTRY *)

DEFAULT_CONFIG ==
  Obj([entity_id |-> Str(""),
       text |-> Str(""),
       animation |-> Null,
       font |-> Str("Home Assistant"),
       font_weight |-> Str("normal"),
       color |-> Str("#FFFFFF"),
       size |-> Str("48"),
       number |-> Obj([size |-> Null, color |-> Null, font_weight |-> Null,
                       decimals |-> Whole(1), font |-> Null]),
       unit_of_measurement |->
         Obj([display |-> Bool(TRUE), as_prefix |-> Bool(FALSE),
              display_text |-> Null, size |-> Null, color |-> Null,
              font_weight |-> Null, font |-> Null]),
       title |-> Obj([display |-> Bool(FALSE), text |-> Null, attribute |-> Null,
                      size |-> Null, color |-> Null, font_weight |-> Null,
                      font |-> Null]),
       subtitle |-> Obj([display |-> Bool(FALSE), text |-> Null, attribute |-> Null,
                         size |-> Null, color |-> Null, font_weight |-> Null,
                         font |-> Null]),
       card |-> Obj([color |-> Null, background |-> Null])])

----------------------------------------------------------------------------
(* deepMerge *)

RECURSIVE deepMergeOntoTarget(_, _)
\* deepMerge merging a nested value onto target instead of target[key]
deepMergeOntoTarget(target, source) ==
  LET merged(key) ==
        LET val == Get(source, key)
        IN  IF Truthy(val) /\ TypeofObject(val) /\ ~IsArray(val)
            THEN deepMergeOntoTarget(IF Truthy(target) THEN target ELSE EmptyObj, val)
            ELSE val
  IN  With(IF Truthy(source) /\ TypeofObject(source) THEN Keys(source) ELSE {},
           LAMBDA ks :
      With(Spread(target), LAMBDA base :
        Obj([k \in DOMAIN base \cup ks |->
               IF k \in ks THEN merged(k) ELSE base[k]])))

RECURSIVE deepMerge(_, _)
\* out starts as a shallow copy of target; every key of an object (or
\* array) source is then written into it: a plain-object value merged onto
\* target[key] (onto {} when target is falsy), any other value as it is.
\* An array target with no key written stays an array; DEFAULT_CONFIG holds
\* no array, so the array copy that also receives keys is kept as a mapping
\* of its indices.
deepMerge(target, source) ==
  LET merged(key) ==
        LET val == Get(source, key)
        IN  IF Truthy(val) /\ TypeofObject(val) /\ ~IsArray(val)
            THEN deepMerge(IF Truthy(target) THEN Get(target, key) ELSE EmptyObj, val)
            ELSE val
  IN  With(IF Truthy(source) /\ TypeofObject(source) THEN Keys(source) ELSE {},
           LAMBDA ks :
      With(Spread(target), LAMBDA base :
        IF IsArray(target) /\ ks = {}
        THEN Arr(target.v)
        ELSE Obj([k \in DOMAIN base \cup ks |->
                    IF k \in ks THEN merged(k) ELSE base[k]])))

\* the new configuration laid over an earlier one (animation "fade", a
\* number color) and not over the defaults alone
EffectiveConfigPatched(config) ==
  deepMerge(deepMerge(DEFAULT_CONFIG,
                      Obj([animation |-> Str("fade"),
                           number |-> Obj([color |-> Str("#111111")])])),
            OrElse(config, EmptyObj))

\* _applyConfig, line 914: this.config = deepMerge(DEFAULT_CONFIG, config || {})
EffectiveConfig(config) == deepMerge(DEFAULT_CONFIG, OrElse(config, EmptyObj))

\* _applyConfig, line 916, and the constructor, line 310:
\* this.shadowConfig = deepMerge({}, this.config)
ShadowClone(config) == deepMerge(EmptyObj, config)

----------------------------------------------------------------------------
(* computeDisplayTexts *)

\* a function value (hass.callApi)
Fn == [t |-> "function"]

\* this.config.number.decimals read as lines 368-372 read it: the raw value
\* (the default when null or undefined), as a number when Number() of it is
\* finite, and the default otherwise
DecimalsCfg(config) ==
  With(Coalesce(GetQ(GetQ(config, "number"), "decimals"),
                Get(Get(DEFAULT_CONFIG, "number"), "decimals")),
       LAMBDA decimalsCfgRaw :
  With(ToNumber(decimalsCfgRaw), LAMBDA n :
    IF IsFinite(n) THEN n ELSE Get(Get(DEFAULT_CONFIG, "number"), "decimals")))

\* toFixed throws a RangeError outside 0..100
ToFixedMax == 100

\* FormatState writing the parsed number where the raw value belongs
FormatStateOfParsed(config, rawState) ==
  With(ToNumber(rawState), LAMBDA parsed :
  With(DecimalsCfg(config), LAMBDA decimalsCfg :
    IF IsFinite(parsed) /\ IsInteger(decimalsCfg) /\ decimalsCfg.v >= 0
    THEN toFixed(parsed.v, decimalsCfg.v \div 1000)
    ELSE StringOf(parsed)))

\* lines 361-374: the text of a state record's primary value
FormatState(config, rawState) ==
  With(ToNumber(rawState), LAMBDA parsed :
  With(DecimalsCfg(config), LAMBDA decimalsCfg :
    LET useDecimals == IsInteger(decimalsCfg) /\ decimalsCfg.v >= 0
    IN  IF ~IsFinite(parsed) THEN StringOf(rawState)
        ELSE IF useDecimals THEN toFixed(parsed.v, decimalsCfg.v \div 1000)
        ELSE StringOf(parsed)))

\* lines 385-409 and 428-437: a title's or subtitle's text, from the shadow
\* configuration's text (the configuration's when that is null), else from
\* the named attribute of the state record (Undefined: no record is read)
TextOrAttribute(config, shadowConfig, group, stateObj) ==
  LET cfgText == Coalesce(GetQ(GetQ(shadowConfig, group), "text"),
                          GetQ(GetQ(config, group), "text"))
      cfgAttr == GetQ(GetQ(config, group), "attribute")
      attributes == GetQ(stateObj, "attributes")
  IN  IF ~IsNullish(cfgText) THEN StringOf(cfgText)
      ELSE IF /\ ~IsNullish(stateObj)
              /\ Truthy(cfgAttr)
              /\ Truthy(attributes)
              /\ Get(attributes, StringOf(cfgAttr)) # Undefined
      THEN StringOf(Get(attributes, StringOf(cfgAttr)))
      ELSE ""

\* lines 376-383 and 421-426: the unit text
UnitText(config, stateObj) ==
  LET cfgUnitText == GetQ(GetQ(config, "unit_of_measurement"), "display_text")
      attributes == GetQ(stateObj, "attributes")
  IN  IF ~IsNullish(cfgUnitText) THEN StringOf(cfgUnitText)
      ELSE IF /\ ~IsNullish(stateObj)
              /\ Truthy(attributes)
              /\ Truthy(Get(attributes, "unit_of_measurement"))
      THEN StringOf(Get(attributes, "unit_of_measurement"))
      ELSE ""

\* NoTexts dropping the sentinel
NoTextsBlank(s) ==
  [state_display_text |-> "", unit_of_measurement_text |-> "",
   title_text |-> "", subtitle_text |-> ""]

\* lines 349-352, 411 and 415: a sentinel as the main value, the other
\* texts as they were initialized
NoTexts(s) ==
  [state_display_text |-> s, unit_of_measurement_text |-> "",
   title_text |-> "", subtitle_text |-> ""]

computeDisplayTexts(config, shadowConfig, hass) ==
  LET hasEntityId == Truthy(config) /\ Truthy(Get(config, "entity_id"))
      hassStates == IF Truthy(hass) THEN Get(hass, "states") ELSE hass
  IN  With(Get(hassStates, StringOf(Get(config, "entity_id"))), LAMBDA stateObj :
      IF hasEntityId /\ Truthy(hassStates)
      THEN IF Truthy(stateObj)
           THEN [state_display_text |-> FormatState(config, Get(stateObj, "state")),
                 unit_of_measurement_text |-> UnitText(config, stateObj),
                 title_text |-> TextOrAttribute(config, shadowConfig, "title", stateObj),
                 subtitle_text |->
                   TextOrAttribute(config, shadowConfig, "subtitle", stateObj)]
           ELSE NoTexts("unknown")
      ELSE IF hasEntityId
      THEN NoTexts("loading")
      ELSE [state_display_text |-> StringOf(Coalesce(GetQ(config, "text"), Str(""))),
            unit_of_measurement_text |-> UnitText(config, Undefined),
            title_text |-> TextOrAttribute(config, shadowConfig, "title", Undefined),
            subtitle_text |->
              TextOrAttribute(config, shadowConfig, "subtitle", Undefined)])

\* computeDisplayTexts failing where no entity is configured
computeDisplayTextsThrowsUnconfigured(config, hass) ==
  ~Truthy(Get(config, "entity_id"))

\* whether computeDisplayTexts throws: toFixed with more than 100 digits
computeDisplayTextsThrows(config, hass) ==
  LET hassStates == IF Truthy(hass) THEN Get(hass, "states") ELSE hass
  IN  With(Get(hassStates, StringOf(Get(config, "entity_id"))), LAMBDA stateObj :
      With(DecimalsCfg(config), LAMBDA decimalsCfg :
        /\ Truthy(Get(config, "entity_id"))
        /\ Truthy(hassStates)
        /\ Truthy(stateObj)
        /\ IsFinite(ToNumber(Get(stateObj, "state")))
        /\ IsInteger(decimalsCfg)
        /\ decimalsCfg.v > ToFixedMax * 1000))

----------------------------------------------------------------------------
(* applyTemplates *)

\* typeof tpl === 'string' && (tpl.includes('{{') || tpl.includes('{%'))
IsTemplate(v) == v.t = "string" /\ (Includes(v.v, "{{") \/ Includes(v.v, "{%"))

\* this._hass && typeof this._hass.callApi === 'function'
HasCallApi(hass) == Truthy(hass) /\ Get(hass, "callApi") = Fn

\* the three templatable fields, in the order applyTemplates visits them
Sections ==
  << [group |-> "card", key |-> "background"],
     [group |-> "title", key |-> "text"],
     [group |-> "subtitle", key |-> "text"] >>

\* where applyTemplates stands after some of its code has run: "next" (the
\* section is done), "await" (a host call for template tpl is outstanding),
\* "throw" (a TypeError left the function), "done" (the function returned)
Outcome(status, shadowConfig, tpl) ==
  [status |-> status, shadowConfig |-> shadowConfig, tpl |-> tpl]

\* this.shadowConfig[group][key] = x.  The class body is strict code: the
\* assignment throws a TypeError when this.shadowConfig[group] is null,
\* undefined or a primitive.  A named property set on an array is not held
\* by the model (no array is a nested group of DEFAULT_CONFIG).
AssignShadow(shadowConfig, group, key, x) ==
  LET g == Get(shadowConfig, group)
  IN  IF g.t = "object" THEN Outcome("next", Put(shadowConfig, group, Put(g, key, x)), Undefined)
      ELSE IF g.t = "array" THEN Outcome("next", shadowConfig, Undefined)
      ELSE Outcome("throw", shadowConfig, Undefined)

\* the fallback assignment letting the failure out of applyTemplates
KeepPreviousOrRawRethrown(shadowConfig, group, key, tpl) ==
  Outcome("throw", shadowConfig, Undefined)

\* this.shadowConfig[group][key] = this.shadowConfig[group][key] || tpl
\* (lines 475, 479, 483, 510, 514, 517)
KeepPreviousOrRaw(shadowConfig, group, key, tpl) ==
  LET g == Get(shadowConfig, group)
  IN  IF IsNullish(g) THEN Outcome("throw", shadowConfig, Undefined)
      ELSE AssignShadow(shadowConfig, group, key, OrElse(Get(g, key), tpl))

\* lines 455-490: the card.background section, up to its host call
CardSection(config, shadowConfig, hass) ==
  IF ~Truthy(Get(config, "card")) THEN Outcome("next", shadowConfig, Undefined)
  ELSE
    With(Put(shadowConfig, "card", OrElse(Get(shadowConfig, "card"), EmptyObj)),
         LAMBDA s1 :
      LET tpl == Get(Get(config, "card"), "background")
      IN  IF ~Truthy(tpl) /\ Truthy(Get(Get(s1, "card"), "background"))
          THEN Outcome("next", s1, Undefined)
          ELSE IF IsTemplate(tpl)
          THEN IF HasCallApi(hass) THEN Outcome("await", s1, tpl)
               ELSE KeepPreviousOrRaw(s1, "card", "background", tpl)
          ELSE AssignShadow(s1, "card", "background", tpl))

\* lines 493-522 (title) and 525-554 (subtitle), up to the host call
TextSection(group, config, shadowConfig, hass) ==
  IF ~Truthy(Get(config, group)) THEN Outcome("next", shadowConfig, Undefined)
  ELSE
    With(Put(shadowConfig, group, OrElse(Get(shadowConfig, group), EmptyObj)),
         LAMBDA s1 :
      LET text == Get(Get(config, group), "text")
      IN  IF Truthy(text) /\ IsTemplate(text)
          THEN IF HasCallApi(hass) THEN Outcome("await", s1, text)
               ELSE KeepPreviousOrRaw(s1, group, "text", text)
          ELSE AssignShadow(s1, group, "text", text))

Section(i, config, shadowConfig, hass) ==
  IF i = 1 THEN CardSection(config, shadowConfig, hass)
  ELSE TextSection(Sections[i].group, config, shadowConfig, hass)

RECURSIVE applyTemplatesFrom(_, _, _, _)
\* applyTemplates run from section i until it awaits a host call, throws or
\* returns; every section reads this.config and this._hass as they are then
applyTemplatesFrom(i, config, shadowConfig, hass) ==
  IF i > Len(Sections) THEN Outcome("done", shadowConfig, Undefined)
  ELSE With(Section(i, config, shadowConfig, hass), LAMBDA o :
         IF o.status = "next"
         THEN applyTemplatesFrom(i + 1, config, o.shadowConfig, hass)
         ELSE [o EXCEPT !.tpl = [i |-> i, tpl |-> o.tpl]])

\* what a host call can answer: a string, something that is no string, or
\* a rejection
Rejected == [t |-> "rejected"]

\* lines 471-480: the card.background section after its host call
CardReply(shadowConfig, tpl, rendered) ==
  IF rendered.t = "string" /\ Trim(rendered.v) # ""
  THEN With(AssignShadow(shadowConfig, "card", "background", Str(Trim(rendered.v))),
            LAMBDA o :
         IF IsNullish(Get(shadowConfig, "card")) \/ o.status = "throw"
         THEN KeepPreviousOrRaw(shadowConfig, "card", "background", tpl)
         ELSE o)
  ELSE KeepPreviousOrRaw(shadowConfig, "card", "background", tpl)

\* a text section after its host call that keeps a text resolved before
TextReplyFirstWins(group, shadowConfig, tpl, rendered) ==
  LET previous == Get(Get(shadowConfig, group), "text")
  IN  IF rendered.t = "string" /\ (~Truthy(previous) \/ IsTemplate(previous))
      THEN AssignShadow(shadowConfig, group, "text", rendered)
      ELSE KeepPreviousOrRaw(shadowConfig, group, "text", tpl)

\* lines 507-515 and 539-547: a text section after its host call
TextReply(group, shadowConfig, tpl, rendered) ==
  IF rendered.t = "string"
  THEN With(AssignShadow(shadowConfig, group, "text", rendered), LAMBDA o :
         IF o.status = "throw"
         THEN KeepPreviousOrRaw(shadowConfig, group, "text", tpl)
         ELSE o)
  ELSE KeepPreviousOrRaw(shadowConfig, group, "text", tpl)

\* section i resumed with the host's answer, then the rest of applyTemplates
applyTemplatesResume(i, tpl, rendered, config, shadowConfig, hass) ==
  With(IF i = 1 THEN CardReply(shadowConfig, tpl, rendered)
       ELSE TextReply(Sections[i].group, shadowConfig, tpl, rendered),
       LAMBDA o :
    IF o.status = "next"
    THEN applyTemplatesFrom(i + 1, config, o.shadowConfig, hass)
    ELSE o)

----------------------------------------------------------------------------
(* The element tree, the timers and the font loader *)

FontsUrl(family) == Str("https://fonts.googleapis.com/css2?family=" \o family)

\* an object literal inherits the members of Object.prototype: reading one
\* of these names off FONT_REGISTRY or animationMap finds a function (here
\* its conversion to a string), not undefined
ObjectPrototype ==
  [constructor |-> "function Object() { [native code] }",
   toString |-> "function toString() { [native code] }",
   valueOf |-> "function valueOf() { [native code] }",
   hasOwnProperty |-> "function hasOwnProperty() { [native code] }"]

FONT_REGISTRY ==
  [Rubik |-> FontsUrl("Rubik:wght@300;400;500;700&display=swap")]
    @@ ("Home Assistant" :> Null)
    @@ ("Rubik Beastly" :> FontsUrl("Rubik+Beastly&display=swap"))
    @@ ("Rubik Bubbles" :> FontsUrl("Rubik+Bubbles&display=swap"))
    @@ ("Rubik Doodle Shadow" :> FontsUrl("Rubik+Doodle+Shadow&display=swap"))
    @@ ("Rubik Dirt" :> FontsUrl("Rubik+Dirt&display=swap"))
    @@ ("Rubik Glitch" :> FontsUrl("Rubik+Glitch&display=swap"))
    @@ ("Rubik Iso" :> FontsUrl("Rubik+Iso&display=swap"))
    @@ ("Rubik Microbe" :> FontsUrl("Rubik+Microbe&display=swap"))
    @@ ("Rubik Moonrocks" :> FontsUrl("Rubik+Moonrocks&display=swap"))
    @@ ("Rubik Pixels" :> FontsUrl("Rubik+Pixels&display=swap"))
    @@ ("Rubik Puddles" :> FontsUrl("Rubik+Puddles&display=swap"))
    @@ ("Rubik Scribble" :> FontsUrl("Rubik+Scribble&display=swap"))
    @@ ("Rubik Spray Paint" :> FontsUrl("Rubik+Spray+Paint&display=swap"))
    @@ ("Rubik Vinyl" :> FontsUrl("Rubik+Vinyl&display=swap"))
    @@ ("Rubik Wet Paint" :> FontsUrl("Rubik+Wet+Paint&display=swap"))

\* animateValueChange, lines 642-648
animationMap ==
  [fade |-> [out |-> "animate-fade-out", inn |-> "animate-fade-in"],
   zoom |-> [out |-> "animate-zoom-out", inn |-> "animate-zoom-in"],
   stretch |-> [out |-> "animate-stretch-out", inn |-> "animate-stretch-in"]]
    @@ ("slide-horizontal" :>
          [out |-> "animate-slide-out-left", inn |-> "animate-slide-in-right"])
    @@ ("slide-vertical" :>
          [out |-> "animate-slide-out-up", inn |-> "animate-slide-in-up"])

\* the delay of both setTimeout calls of animateValueChange, in ms
ANIMATION_MS == 300

\* SET_CONFIG_DEBOUNCE_MS, in ms
SET_CONFIG_DEBOUNCE_MS == 400

NoStyle == [fontSize |-> Undefined, fontWeight |-> Undefined, color |-> Undefined,
            fontFamily |-> Undefined]

NoElement == [attached |-> FALSE, text |-> "", classes |-> {}, style |-> NoStyle]

\* the shadow root before the first render: no ha-card, no span
NoTree ==
  [content |-> FALSE, cards |-> 0, background |-> Undefined, flexDirection |-> "",
   number |-> NoElement, unit |-> NoElement, title |-> NoElement,
   subtitle |-> NoElement]

\* a timer set with setTimeout: its id, what its callback does ("config":
\* apply the pending configuration; "swap": the outer callback of
\* animateValueChange; "cleanup": the inner one), the ms left, the ms
\* since it was set, and what the callback closes over
Timer(id, kind, rem, newValue, animations) ==
  [id |-> id, kind |-> kind, rem |-> rem, age |-> 0, newValue |-> newValue,
   animations |-> animations]

NoAnimations == [out |-> "", inn |-> ""]

\* line 650, `animationMap[animationType]`: the pair of classes of a kind of
\* the map; for a name Object.prototype defines, a function, whose `out`
\* and `in` are undefined (classList.add and remove then take the token
\* "undefined"); NoAnimations when the lookup gives undefined
AnimationsOf(key) ==
  IF key \in DOMAIN animationMap THEN animationMap[key]
  ELSE IF key \in DOMAIN ObjectPrototype THEN [out |-> "undefined", inn |-> "undefined"]
  ELSE NoAnimations

TimerIds(timers) == {timers[i].id : i \in 1..Len(timers)}

\* the id setTimeout returns: one no live timer has
NewTimerId(timers) ==
  CHOOSE n \in 1..(Len(timers) + 1) :
    /\ n \notin TimerIds(timers)
    /\ \A m \in 1..(n - 1) : m \in TimerIds(timers)

\* clearTimeout(id)
clearTimeout(timers, id) == SelectSeq(timers, LAMBDA x : x.id # id)

\* what a render pass reads and writes besides the two configurations
World(dom, previousDisplayValue, timers, loadedFonts, headLinks) ==
  [dom |-> dom, previousDisplayValue |-> previousDisplayValue, timers |-> timers,
   loadedFonts |-> loadedFonts, headLinks |-> headLinks]

\* loadFont, lines 316-337
loadFont(w, font) ==
  IF ~Truthy(font) \/ font = Str("Home Assistant") THEN w
  ELSE IF font \in w.loadedFonts THEN w
  ELSE LET key == StringOf(font)
           fontUrl == IF key \in DOMAIN FONT_REGISTRY THEN FONT_REGISTRY[key]
                      ELSE IF key \in DOMAIN ObjectPrototype
                      THEN Str(ObjectPrototype[key])
                      ELSE Undefined
       IN  IF Truthy(fontUrl)
           THEN [w EXCEPT !.headLinks = Append(@, fontUrl.v),
                          !.loadedFonts = @ \cup {font}]
           ELSE [w EXCEPT !.loadedFonts = @ \cup {font}]

\* ensureCard without the early return of line 564
ensureCardAgain(w) == [w EXCEPT !.dom.content = TRUE, !.dom.cards = @ + 1]

\* ensureCard, lines 563-610
ensureCard(w) ==
  IF w.dom.content THEN w
  ELSE [w EXCEPT !.dom.content = TRUE, !.dom.cards = @ + 1]

\* animateValueChange writing the new text before the first timer fires
animateValueChangeAtOnce(w, newValue, animationType) ==
  LET animations == AnimationsOf(StringOf(animationType))
  IN  IF animations = NoAnimations
      THEN [w EXCEPT !.dom.number.text = newValue]
      ELSE [w EXCEPT !.dom.number.text = newValue,
                     !.dom.number.classes = {animations.out},
                     !.timers = Append(@, Timer(NewTimerId(w.timers), "swap",
                                                ANIMATION_MS, newValue,
                                                animations))]

\* animateValueChange, lines 640-674, on span#number
animateValueChange(w, newValue, animationType) ==
  LET animations == AnimationsOf(StringOf(animationType))
  IN  IF animations = NoAnimations
      THEN [w EXCEPT !.dom.number.text = newValue]
      ELSE [w EXCEPT !.dom.number.classes = {animations.out},
                     !.timers = Append(@, Timer(NewTimerId(w.timers), "swap",
                                                ANIMATION_MS, newValue,
                                                animations))]

\* the four style properties written on a text element: the group's value,
\* else DEFAULT_CONFIG's value for the group (lines 726-732, 753-762,
\* 807-813, 838-845)
ElementStyle(groupCfg, group, fontFamily) ==
  LET d == Get(DEFAULT_CONFIG, group)
  IN  [fontSize |-> Str(StringOf(Coalesce(Get(groupCfg, "size"), Get(d, "size"))) \o "px"),
       fontWeight |-> Coalesce(Get(groupCfg, "font_weight"), Get(d, "font_weight")),
       color |-> Coalesce(Get(groupCfg, "color"), Get(d, "color")),
       fontFamily |-> IF fontFamily = Str("Home Assistant")
                      THEN Str("var(--ha-card-header-font-family, inherit)")
                      ELSE fontFamily]

\* cfg.group ? cfg.group : DEFAULT_CONFIG.group
GroupCfg(config, group) ==
  IF Truthy(Get(config, group)) THEN Get(config, group) ELSE Get(DEFAULT_CONFIG, group)

\* groupCfg.font || DEFAULT_CONFIG.group.font
FontFamily(groupCfg, group) ==
  OrElse(Get(groupCfg, "font"), Get(Get(DEFAULT_CONFIG, group), "font"))

\* lines 710-721: whether updateNumberDisplay calls animateValueChange
TakesAnimationBranch(config, previousDisplayValue, state_display_text) ==
  LET valueChanged == /\ previousDisplayValue # Null
                      /\ previousDisplayValue # Str(state_display_text)
      animationType == Get(config, "animation")
  IN  valueChanged /\ Truthy(animationType) /\ animationType # Str("none")

\* updateNumberDisplay, lines 676-782
updateNumberDisplay(config, shadowConfig, w, state_display_text, unit_of_measurement_text) ==
  LET cfgNumber == GroupCfg(config, "number")
      uomCfg == GroupCfg(config, "unit_of_measurement")
      shadowCard == IF Truthy(shadowConfig) /\ Truthy(Get(shadowConfig, "card"))
                    THEN Get(shadowConfig, "card")
                    ELSE IF Truthy(Get(config, "card")) THEN Get(config, "card")
                    ELSE EmptyObj
      numberFontFamily == FontFamily(cfgNumber, "number")
      showUnit == Truthy(uomCfg) /\ Truthy(Get(uomCfg, "display"))
      unitFontFamily == FontFamily(uomCfg, "unit_of_measurement")
  IN  With(IF Truthy(Get(shadowCard, "background")) /\ w.dom.cards > 0
           THEN [w EXCEPT !.dom.background = Get(shadowCard, "background")]
           ELSE w,
           LAMBDA w1 :
      With(loadFont(w1, numberFontFamily), LAMBDA w2 :
      With(IF TakesAnimationBranch(config, w2.previousDisplayValue, state_display_text)
           THEN animateValueChange(w2, state_display_text, Get(config, "animation"))
           ELSE [w2 EXCEPT !.dom.number.text = state_display_text],
           LAMBDA w3 :
      With([w3 EXCEPT !.previousDisplayValue = Str(state_display_text),
                      !.dom.number.style =
                         ElementStyle(cfgNumber, "number", numberFontFamily),
                      !.dom.number.attached = TRUE],
           LAMBDA w4 :
      With(IF showUnit
           THEN [loadFont(w4, unitFontFamily) EXCEPT
                   !.dom.unit = [attached |-> TRUE,
                                 text |-> unit_of_measurement_text,
                                 classes |-> {},
                                 style |-> ElementStyle(uomCfg, "unit_of_measurement",
                                                        unitFontFamily)]]
           ELSE [w4 EXCEPT !.dom.unit = NoElement],
           LAMBDA w5 :
        [w5 EXCEPT !.dom.flexDirection =
           IF showUnit /\ Truthy(Get(uomCfg, "as_prefix"))
           THEN "row-reverse" ELSE "row"])))))

\* one half of updateTitleAndSubtitle, lines 792-821 and 823-853
updateTextElement(config, w, group, text) ==
  LET groupCfg == GroupCfg(config, group)
      fontFamily == FontFamily(groupCfg, group)
  IN  IF w.dom.cards > 0 /\ Truthy(groupCfg) /\ Truthy(Get(groupCfg, "display")) /\ text # ""
      THEN [loadFont(w, fontFamily) EXCEPT
              !.dom[group] = [attached |-> TRUE, text |-> text, classes |-> {},
                              style |-> ElementStyle(groupCfg, group, fontFamily)]]
      ELSE [w EXCEPT !.dom[group] = NoElement]

\* updateTitleAndSubtitle, lines 787-854
updateTitleAndSubtitle(config, w, title_text, subtitle_text) ==
  With(updateTextElement(config, w, "title", title_text), LAMBDA w1 :
    updateTextElement(config, w1, "subtitle", subtitle_text))

\* updateContent after its await, lines 621-634
renderTexts(config, shadowConfig, hass, w) ==
  With(computeDisplayTexts(config, shadowConfig, hass), LAMBDA texts :
  With(ensureCard(w), LAMBDA w0 :
  With(updateNumberDisplay(config, shadowConfig, w0, texts.state_display_text,
                           texts.unit_of_measurement_text),
       LAMBDA w1 :
    updateTitleAndSubtitle(config, w1, texts.title_text, texts.subtitle_text))))

\* shouldUpdate letting through the first render only
shouldUpdateFirstOnly(config, shadowConfig, hass, previousDisplayValue) ==
  previousDisplayValue = Null

\* shouldUpdate, lines 876-886
shouldUpdate(config, shadowConfig, hass, previousDisplayValue) ==
  LET state_display_text == computeDisplayTexts(config, shadowConfig, hass).state_display_text
  IN  previousDisplayValue = Null \/ previousDisplayValue # Str(state_display_text)

----------------------------------------------------------------------------
(* The component as a state machine *)

VARIABLES
  config,               \* this.config
  shadowConfig,         \* this.shadowConfig
  hass,                 \* this._hass
  previousDisplayValue, \* this.previousDisplayValue
  pendingConfig,        \* this.pendingConfig
  setConfigTimer,       \* this.setConfigTimer
  timers,               \* the timers set and not yet fired, oldest first
  loadedFonts,          \* this.loadedFonts
  headLinks,            \* the hrefs of the <link> elements put in document.head
  dom,                  \* the element tree under the shadow root
  micro,                \* render passes whose await resumes in the microtask queue
  awaiting,             \* render passes awaiting a host template call (a bag)
  ev,                   \* history: the step just taken
  hist,                 \* history: the current run of pushes, the last setConfig call
  arg,                  \* the input of a pure function under check
  res                   \* its result

vars == <<config, shadowConfig, hass, previousDisplayValue, pendingConfig,
          setConfigTimer, timers, loadedFonts, headLinks, dom, micro, awaiting,
          ev, hist, arg, res>>

machine == <<config, shadowConfig, hass, previousDisplayValue, pendingConfig,
             setConfigTimer, timers, loadedFonts, headLinks, dom, micro, awaiting,
             ev, hist>>

\* the most render passes and timers outstanding together
MaxPending == 2

\* the most ms the clock advances in one step
TickMs == 300

Entity == "sensor.t"

StateRecord(state, unit) ==
  Obj([state |-> Str(state),
       attributes |-> IF unit = "" THEN EmptyObj
                      ELSE Obj([unit_of_measurement |-> Str(unit)])])

\* a hass object with one entity
Snapshot(rec) == Obj([states |-> Obj(Entity :> rec), callApi |-> Fn])

\* the state snapshots the host pushes
Snapshots ==
  {Snapshot(StateRecord("21.456", "C")),
   Snapshot(StateRecord("21.44", "C")),
   Snapshot(StateRecord("21.456", "F"))}

\* the configurations the host sets
Patches ==
  {Obj([entity_id |-> Str(Entity), animation |-> Str("fade"),
        title |-> Obj([display |-> Bool(TRUE), text |-> Str("{{ area }}")])]),
   Obj([entity_id |-> Str(Entity), animation |-> Str("shake")]),
   Obj([entity_id |-> Str(Entity), animation |-> Str("none")]),
   Obj([entity_id |-> Str(Entity)])}

\* what the host answers to a template call
HostAnswers == {Str(" Kitchen "), Rejected}

NoTimer == Timer(0, "", 0, "", NoAnimations)

\* a render pass in flight: the section whose host call it awaits (0 in the
\* microtask queue), the template sent, and whether a push of the current
\* run of pushes (the same snapshot pushed again and again, no configuration
\* applied in between) started it
Pass(i, tpl, cur) == [i |-> i, tpl |-> tpl, cur |-> cur]

\* a host call that completed: the section that made it, the template it
\* sent and the host's answer
Reply(i, tpl, rendered) == [i |-> i, tpl |-> tpl, rendered |-> rendered]

NoReply == Reply(0, Undefined, Undefined)

\* the step just taken: the operation, the number element's text and
\* classes before it and, for the operations that set them, the
\* displayed-value record and the number of timers before it, the timer
\* whose callback ran, whether a render pass was started, whether the pass
\* that rendered was of the current run of pushes, the snapshot replaced,
\* the argument and number of the setConfig calls now applied, and the
\* host call that completed
Event(op) ==
  [op |-> op, prev |-> Null, textBefore |-> dom.number.text,
   classesBefore |-> dom.number.classes, nTimers |-> 0, timer |-> NoTimer,
   started |-> FALSE, cur |-> FALSE, hass |-> Undefined, arg |-> Undefined,
   calls |-> 0, reply |-> NoReply]

Pending == Len(micro) + BagCardinality(awaiting) + Len(timers)

MachineInit ==
  /\ config = deepMerge(EmptyObj, DEFAULT_CONFIG)
  /\ shadowConfig = deepMerge(EmptyObj, deepMerge(EmptyObj, DEFAULT_CONFIG))
  /\ hass = Undefined
  /\ previousDisplayValue = Null
  /\ pendingConfig = Null
  /\ setConfigTimer = Null
  /\ timers = <<>>
  /\ loadedFonts = {}
  /\ headLinks = <<>>
  /\ dom = NoTree
  /\ micro = <<>>
  /\ awaiting = EmptyBag
  /\ ev = Event("init")
  /\ hist = [runRenders |-> 0, lastCallArg |-> Undefined, calls |-> 0,
             appliesSinceCall |-> 0]

Init == MachineInit /\ arg = Undefined /\ res = Undefined

\* the passes in flight, none of them of the current run of pushes any more
Retire(passes) == [i \in DOMAIN passes |-> [passes[i] EXCEPT !.cur = FALSE]]

RetireBag(b) ==
  LET old == {x \in BagToSet(b) : x.cur}
      keep == {x \in BagToSet(b) : ~x.cur}
      retired == {[x EXCEPT !.cur = FALSE] : x \in old}
  IN  [x \in keep \cup retired |->
         (IF x \in keep THEN CopiesIn(x, b) ELSE 0)
           + CopiesIn([x EXCEPT !.cur = TRUE], b)]

\* updateContent giving up the host calls outstanding when it starts
updateContentStartCancelling(c, sc, h, cur, m, a) ==
  IF computeDisplayTextsThrows(c, h) \/ ~shouldUpdate(c, sc, h, previousDisplayValue)
  THEN [shadowConfig |-> sc, micro |-> m, awaiting |-> EmptyBag, started |-> FALSE]
  ELSE With(applyTemplatesFrom(1, c, sc, h), LAMBDA o :
         CASE o.status = "done" ->
                [shadowConfig |-> o.shadowConfig,
                 micro |-> Append(m, Pass(0, Undefined, cur)),
                 awaiting |-> EmptyBag, started |-> TRUE]
           [] o.status = "await" ->
                [shadowConfig |-> o.shadowConfig, micro |-> m,
                 awaiting |-> SetToBag({Pass(o.tpl.i, o.tpl.tpl, cur)}),
                 started |-> TRUE]
           [] OTHER ->
                [shadowConfig |-> o.shadowConfig, micro |-> m, awaiting |-> EmptyBag,
                 started |-> TRUE])

\* updateContent without the gate of lines 614-616
updateContentStartUngated(c, sc, h, cur, m, a) ==
  IF computeDisplayTextsThrows(c, h)
  THEN [shadowConfig |-> sc, micro |-> m, awaiting |-> a, started |-> FALSE]
  ELSE With(applyTemplatesFrom(1, c, sc, h), LAMBDA o :
         CASE o.status = "done" ->
                [shadowConfig |-> o.shadowConfig,
                 micro |-> Append(m, Pass(0, Undefined, cur)),
                 awaiting |-> a, started |-> TRUE]
           [] o.status = "await" ->
                [shadowConfig |-> o.shadowConfig, micro |-> m,
                 awaiting |-> a (+) SetToBag({Pass(o.tpl.i, o.tpl.tpl, cur)}),
                 started |-> TRUE]
           [] OTHER ->
                [shadowConfig |-> o.shadowConfig, micro |-> m, awaiting |-> a,
                 started |-> TRUE])

\* updateContent up to its await, lines 612-619, with this.config = c,
\* this.shadowConfig = sc and this._hass = h: the new shadow configuration
\* and the render pass left in flight, if any.  cur and the queues m and a
\* are those the pass is added to.
updateContentStart(c, sc, h, cur, m, a) ==
  IF computeDisplayTextsThrows(c, h) \/ ~shouldUpdate(c, sc, h, previousDisplayValue)
  THEN [shadowConfig |-> sc, micro |-> m, awaiting |-> a, started |-> FALSE]
  ELSE With(applyTemplatesFrom(1, c, sc, h), LAMBDA o :
         CASE o.status = "done" ->
                [shadowConfig |-> o.shadowConfig,
                 micro |-> Append(m, Pass(0, Undefined, cur)),
                 awaiting |-> a, started |-> TRUE]
           [] o.status = "await" ->
                [shadowConfig |-> o.shadowConfig, micro |-> m,
                 awaiting |-> a (+) SetToBag({Pass(o.tpl.i, o.tpl.tpl, cur)}),
                 started |-> TRUE]
           [] OTHER ->
                [shadowConfig |-> o.shadowConfig, micro |-> m, awaiting |-> a,
                 started |-> TRUE])

\* set hass(hass), lines 339-343
SetHass(h) ==
  /\ Pending < MaxPending
  /\ LET sameRun == h = hass
     IN  \E u \in {updateContentStart(config, shadowConfig, h, TRUE,
                                      IF sameRun THEN micro ELSE Retire(micro),
                                      IF sameRun THEN awaiting ELSE RetireBag(awaiting))} :
         /\ hass' = h
         /\ shadowConfig' = u.shadowConfig
         /\ micro' = u.micro
         /\ awaiting' = u.awaiting
         /\ hist' = [hist EXCEPT !.runRenders = IF sameRun THEN @ ELSE 0]
         /\ ev' = [Event("hass") EXCEPT !.started = u.started, !.hass = hass]
  /\ UNCHANGED <<config, previousDisplayValue, pendingConfig, setConfigTimer, timers,
                 loadedFonts, headLinks, dom, arg, res>>

\* setConfig without its clearTimeout
KeepPending(ts, id) == ts

\* the timers after setConfig has cleared the one it holds, lines 896-898
ClearPending(ts, id) == IF id # Null THEN clearTimeout(ts, id.v) ELSE ts

\* setConfig, lines 892-908
SetConfig(p) ==
  /\ Pending < MaxPending
  /\ LET ts == ClearPending(timers, setConfigTimer)
         id == NewTimerId(ts)
     IN  /\ pendingConfig' = p
         /\ timers' = Append(ts, Timer(id, "config", SET_CONFIG_DEBOUNCE_MS, "",
                                       NoAnimations))
         /\ setConfigTimer' = Num(id)
  /\ hist' = [hist EXCEPT !.lastCallArg = p, !.calls = IF @ < 2 THEN @ + 1 ELSE @,
                          !.appliesSinceCall = 0]
  /\ ev' = Event("setConfig")
  /\ UNCHANGED <<config, shadowConfig, hass, previousDisplayValue, loadedFonts,
                 headLinks, dom, micro, awaiting, arg, res>>

\* the timer whose callback runs next: the oldest of those due
DueIndex ==
  CHOOSE i \in 1..Len(timers) :
    /\ timers[i].rem = 0
    /\ \A j \in 1..(i - 1) : timers[j].rem # 0

Due == micro = <<>> /\ \E i \in 1..Len(timers) : timers[i].rem = 0

Remove(seq, i) == SubSeq(seq, 1, i - 1) \o SubSeq(seq, i + 1, Len(seq))

\* the callback of setConfig's timer, lines 900-907, with _applyConfig,
\* lines 913-923
ApplyConfig ==
  /\ Due
  /\ timers[DueIndex].kind = "config"
  /\ \E c \in {EffectiveConfig(pendingConfig)} :
     \E sc \in {ShadowClone(c)} :
     \E u \in {updateContentStart(c, sc, hass, FALSE, Retire(micro),
                                  RetireBag(awaiting))} :
         /\ config' = c
         /\ shadowConfig' = u.shadowConfig
         /\ micro' = u.micro
         /\ awaiting' = u.awaiting
         /\ ev' = [Event("applyConfig") EXCEPT !.timer = timers[DueIndex],
                                               !.started = u.started,
                                               !.arg = hist.lastCallArg,
                                               !.calls = hist.calls]
  /\ timers' = Remove(timers, DueIndex)
  /\ setConfigTimer' = Null
  /\ pendingConfig' = Null
  /\ hist' = [hist EXCEPT !.runRenders = 0, !.lastCallArg = Undefined,
                          !.calls = 0,
                          !.appliesSinceCall = IF @ < 2 THEN @ + 1 ELSE @]
  /\ UNCHANGED <<hass, previousDisplayValue, loadedFonts, headLinks, dom, arg, res>>

\* the outer callback of animateValueChange, lines 664-673
SwapText ==
  /\ Due
  /\ timers[DueIndex].kind = "swap"
  /\ LET t == timers[DueIndex]
         ts == Remove(timers, DueIndex)
     IN  /\ dom' = [dom EXCEPT !.number.text = t.newValue,
                               !.number.classes =
                                  (@ \ {t.animations.out}) \cup {t.animations.inn}]
         /\ timers' = Append(ts, Timer(NewTimerId(ts), "cleanup", ANIMATION_MS,
                                       t.newValue, t.animations))
         /\ ev' = [Event("swap") EXCEPT !.timer = t, !.nTimers = Len(timers)]
  /\ UNCHANGED <<config, shadowConfig, hass, previousDisplayValue, pendingConfig,
                 setConfigTimer, loadedFonts, headLinks, micro, awaiting, hist,
                 arg, res>>

\* the inner callback of animateValueChange, lines 670-672
CleanUp ==
  /\ Due
  /\ timers[DueIndex].kind = "cleanup"
  /\ dom' = [dom EXCEPT !.number.classes = @ \ {timers[DueIndex].animations.inn}]
  /\ timers' = Remove(timers, DueIndex)
  /\ ev' = [Event("cleanup") EXCEPT !.timer = timers[DueIndex],
                                    !.nTimers = Len(timers)]
  /\ UNCHANGED <<config, shadowConfig, hass, previousDisplayValue, pendingConfig,
                 setConfigTimer, loadedFonts, headLinks, micro, awaiting, hist,
                 arg, res>>

\* updateContent after its await, lines 621-634, by a pass with history cur
Render(sc, cur, reply) ==
  \E w \in {renderTexts(config, sc, hass,
                         World(dom, previousDisplayValue, timers, loadedFonts,
                               headLinks))} :
      /\ dom' = w.dom
      /\ previousDisplayValue' = w.previousDisplayValue
      /\ timers' = w.timers
      /\ loadedFonts' = w.loadedFonts
      /\ headLinks' = w.headLinks
      /\ hist' = [hist EXCEPT !.runRenders = IF cur /\ @ < 2 THEN @ + 1 ELSE @]
      /\ ev' = [Event("render") EXCEPT !.prev = previousDisplayValue,
                                       !.nTimers = Len(timers),
                                       !.cur = cur,
                                       !.reply = reply]

\* a pass whose await found applyTemplates already returned resumes
RunMicrotask ==
  /\ micro # <<>>
  /\ micro' = Tail(micro)
  /\ IF computeDisplayTextsThrows(config, hass)
     THEN /\ ev' = Event("rejected")
          /\ UNCHANGED <<dom, previousDisplayValue, timers, loadedFonts, headLinks, hist>>
     ELSE Render(shadowConfig, Head(micro).cur, NoReply)
  /\ UNCHANGED <<config, shadowConfig, hass, pendingConfig, setConfigTimer, awaiting,
                 arg, res>>

\* the host answers a template call: applyTemplates goes on to its next
\* host call, or returns and the pass renders
HostReply(pass, rendered) ==
  /\ micro = <<>>
  /\ BagIn(pass, awaiting)
  /\ LET rest == awaiting (-) SetToBag({pass})
     IN  \E o \in {applyTemplatesResume(pass.i, pass.tpl, rendered, config,
                                        shadowConfig, hass)} :
         /\ shadowConfig' = o.shadowConfig
         /\ CASE o.status = "await" ->
                   /\ awaiting' = rest (+) SetToBag({Pass(o.tpl.i, o.tpl.tpl, pass.cur)})
                   /\ ev' = [Event("reply") EXCEPT
                               !.reply = Reply(pass.i, pass.tpl, rendered)]
                   /\ UNCHANGED <<dom, previousDisplayValue, timers, loadedFonts,
                                  headLinks, hist>>
              [] o.status = "done" /\ ~computeDisplayTextsThrows(config, hass) ->
                   /\ awaiting' = rest
                   /\ Render(o.shadowConfig, pass.cur,
                             Reply(pass.i, pass.tpl, rendered))
              [] OTHER ->
                   /\ awaiting' = rest
                   /\ ev' = [Event("rejected") EXCEPT
                               !.reply = Reply(pass.i, pass.tpl, rendered)]
                   /\ UNCHANGED <<dom, previousDisplayValue, timers, loadedFonts,
                                  headLinks, hist>>
  /\ UNCHANGED <<config, hass, pendingConfig, setConfigTimer, micro, arg, res>>

Min(a, b) == IF a < b THEN a ELSE b

RECURSIVE MinRem(_)
MinRem(ts) == IF Len(ts) = 1 THEN ts[1].rem ELSE Min(ts[1].rem, MinRem(Tail(ts)))

\* time passes, up to the next timer's due time
Tick ==
  /\ micro = <<>>
  /\ timers # <<>>
  /\ MinRem(timers) > 0
  /\ LET dt == Min(TickMs, MinRem(timers))
     IN  timers' = [i \in DOMAIN timers |->
                      [timers[i] EXCEPT !.rem = @ - dt, !.age = @ + dt]]
  /\ ev' = Event("tick")
  /\ UNCHANGED <<config, shadowConfig, hass, previousDisplayValue, pendingConfig,
                 setConfigTimer, loadedFonts, headLinks, dom, micro, awaiting, hist,
                 arg, res>>

Next ==
  \/ \E h \in Snapshots : SetHass(h)
  \/ \E p \in Patches : SetConfig(p)
  \/ ApplyConfig
  \/ SwapText
  \/ CleanUp
  \/ RunMicrotask
  \/ \E pass \in BagToSet(awaiting), rendered \in HostAnswers : HostReply(pass, rendered)
  \/ Tick

Spec == Init /\ [][Next]_vars

----------------------------------------------------------------------------
(* Render passes in flight together under two templated configurations
   (specification SpecRace) *)

\* two configurations whose title is a template, each its own
RacePatches ==
  {Obj([entity_id |-> Str(Entity),
        title |-> Obj([display |-> Bool(TRUE), text |-> Str("{{ area }}")])]),
   Obj([entity_id |-> Str(Entity),
        title |-> Obj([display |-> Bool(TRUE), text |-> Str("{{ room }}")])])}

RaceSnapshots ==
  {Snapshot(StateRecord("21.456", "C")), Snapshot(StateRecord("21.44", "C"))}

\* the host's answers: two results that differ, and a failure
RaceAnswers == {Str("Kitchen"), Str("Hall"), Rejected}

NextRace ==
  \/ \E h \in RaceSnapshots : SetHass(h)
  \/ \E p \in RacePatches : SetConfig(p)
  \/ ApplyConfig
  \/ RunMicrotask
  \/ \E pass \in BagToSet(awaiting), rendered \in RaceAnswers : HostReply(pass, rendered)
  \/ Tick

SpecRace == Init /\ [][NextRace]_vars

----------------------------------------------------------------------------
(* Transitions under two animation kinds (specification SpecAnim) *)

\* two configurations without templates, each with its own recognized kind
AnimPatches ==
  {Obj([entity_id |-> Str(Entity), animation |-> Str("fade")]),
   Obj([entity_id |-> Str(Entity), animation |-> Str("zoom")])}

NextAnim ==
  \/ \E h \in RaceSnapshots : SetHass(h)
  \/ \E p \in AnimPatches : SetConfig(p)
  \/ ApplyConfig
  \/ SwapText
  \/ CleanUp
  \/ RunMicrotask
  \/ Tick

SpecAnim == Init /\ [][NextAnim]_vars

----------------------------------------------------------------------------
(* Configurations with and without a card background (specification SpecCard) *)

CardPatches ==
  {Obj([entity_id |-> Str(Entity),
        card |-> Obj([background |-> Str("linear-gradient(red, blue)")])]),
   Obj([entity_id |-> Str(Entity), card |-> Obj([background |-> Str("{{ bg }}")])]),
   Obj([entity_id |-> Str(Entity)])}

\* the host's answers to the background template
CardAnswers == {Str(" green "), Rejected}

NextCard ==
  \/ \E h \in RaceSnapshots : SetHass(h)
  \/ \E p \in CardPatches : SetConfig(p)
  \/ ApplyConfig
  \/ RunMicrotask
  \/ \E pass \in BagToSet(awaiting), rendered \in CardAnswers : HostReply(pass, rendered)
  \/ Tick

SpecCard == Init /\ [][NextCard]_vars

----------------------------------------------------------------------------
(* computeDisplayTexts applied to drawn configurations and snapshots *)

\* the most decimal places a drawn configuration asks for
MaxDecimals == 4

\* the decimals settings drawn: none, null, strings, a negative number, a
\* non-integer, and 0 .. MaxDecimals
DecimalsInputs ==
  {Undefined, Null, Str("abc"), Str("2"), Str(""), Whole(-1), Num(1500)}
    \cup {Whole(d) : d \in 0..MaxDecimals}

\* primary values that Number() turns into a finite number, with the number
\* in thousandths
NumericStates ==
  {[s |-> "21.456", x |-> 21456], [s |-> "21.44", x |-> 21440],
   [s |-> "-0.04", x |-> -40], [s |-> "2.5", x |-> 2500],
   [s |-> " 7 ", x |-> 7000], [s |-> "", x |-> 0]}

\* primary values that Number() turns into NaN
NonNumericStates == {"on", "off", "unavailable"}

\* what is drawn: the patch's entity_id, text and number.decimals (Undefined:
\* the patch has no such key), the shape of the snapshot, and the primary
\* value of the entity's state record when the snapshot holds one
FmtInputs ==
  [entity_id : {Undefined, Str(""), Str(Entity)},
   text : {Undefined, Null, Str("Hello")},
   decimals : DecimalsInputs,
   shape : {"none", "nostates", "empty", "other"},
   state : {""}]
  \cup
  [entity_id : {Undefined, Str(""), Str(Entity)},
   text : {Undefined, Null, Str("Hello")},
   decimals : DecimalsInputs,
   shape : {"has"},
   state : {n.s : n \in NumericStates} \cup NonNumericStates]

\* the one-key mapping k: v, empty when v is Undefined
Optional(k, v) == IF v = Undefined THEN <<>> ELSE k :> v

FmtPatch(a) ==
  Obj(Optional("entity_id", a.entity_id) @@ Optional("text", a.text)
        @@ Optional("number", IF a.decimals = Undefined THEN Undefined
                              ELSE Obj([decimals |-> a.decimals])))

FmtHass(a) ==
  CASE a.shape = "none" -> Undefined
    [] a.shape = "nostates" -> Obj([callApi |-> Fn])
    [] a.shape = "empty" -> Obj([states |-> EmptyObj, callApi |-> Fn])
    [] a.shape = "other" ->
         Obj([states |-> Obj("sensor.other" :> StateRecord("1", "C")), callApi |-> Fn])
    [] a.shape = "has" -> Snapshot(StateRecord(a.state, "C"))

InitFmt == MachineInit /\ arg \in FmtInputs /\ res = Undefined

\* computeDisplayTexts with the configuration _applyConfig makes of the
\* patch, its shadow copy, and the snapshot
Format ==
  /\ res = Undefined
  /\ \E c \in {EffectiveConfig(FmtPatch(arg))} :
     \E sc \in {ShadowClone(c)} :
     \E h \in {FmtHass(arg)} :
       res' = computeDisplayTexts(c, sc, h)
  /\ UNCHANGED <<machine, arg>>

NextFmt == Format

SpecFmt == InitFmt /\ [][NextFmt]_vars

----------------------------------------------------------------------------
(* deepMerge applied to drawn patches *)

\* what a patch holds under a key of a nested group: nothing, null, a
\* scalar, or a mapping
MergeInputs ==
  {Undefined, Null}
  \cup
  {Obj(Optional("number", n) @@ Optional("title", t) @@ Optional("card", c)
         @@ Optional("size", z) @@ Optional("extra", x)) :
     n \in {Undefined, Null, Whole(5), Obj([decimals |-> Whole(2)]),
            Obj([prefix |-> Str("~")])},
     t \in {Undefined, Str("Hello"), Obj([text |-> Str("T"), display |-> Bool(TRUE)])},
     c \in {Undefined, Null, Str("red"), Obj([background |-> Str("blue")])},
     z \in {Undefined, Str("64")},
     x \in {Undefined, Arr(<<Whole(1), Whole(2)>>)}}

InitMerge == MachineInit /\ arg \in MergeInputs /\ res = Undefined

\* _applyConfig, line 914
Merge ==
  /\ res = Undefined
  /\ res' = EffectiveConfig(arg)
  /\ UNCHANGED <<machine, arg>>

NextMerge == Merge

SpecMerge == InitMerge /\ [][NextMerge]_vars

----------------------------------------------------------------------------
(* One render pass over drawn template fields (specification SpecTpl) *)

\* what a templatable field of the configuration holds
TplValues == {Str("{{ a }}"), Str("{% b %}"), Str("Hall"), Str(""), Null}

\* what the shadow field holds when the pass starts: the clone of the
\* configuration's value (Undefined here), or a value an earlier host
\* call left
TplPrevious == {Undefined, Str("Old")}

\* what the host answers
TplAnswers == {Str(" Kitchen "), Str("  "), Str(""), Whole(7), Rejected}

\* a pass: the field (an index of Sections), its value, the shadow's, and
\* the snapshot: none, one without callApi, one with
TplInputs ==
  [i : 1..Len(Sections), value : TplValues, prev : TplPrevious,
   host : {"none", "nocall", "call"}]

TplConfig(a) ==
  EffectiveConfig(
    Obj([entity_id |-> Str(Entity)]
        @@ (Sections[a.i].group :>
              Obj((Sections[a.i].key :> a.value)
                  @@ (IF a.i = 1 THEN <<>> ELSE [display |-> Bool(TRUE)])))))

TplShadow(a) ==
  IF a.prev = Undefined THEN ShadowClone(TplConfig(a))
  ELSE AssignShadow(ShadowClone(TplConfig(a)), Sections[a.i].group,
                    Sections[a.i].key, a.prev).shadowConfig

TplHass(a) ==
  CASE a.host = "none" -> Undefined
    [] a.host = "nocall" -> Obj([states |-> Obj(Entity :> StateRecord("21.456", "C"))])
    [] OTHER -> Snapshot(StateRecord("21.456", "C"))

\* where the pass stands: the outcome of applyTemplates so far, the host
\* calls made, the last answer, and the world once rendered
TplPass(o, calls, answer) ==
  [status |-> o.status, shadowConfig |-> o.shadowConfig, tpl |-> o.tpl,
   calls |-> calls + (IF o.status = "await" THEN 1 ELSE 0), answer |-> answer,
   w |-> Undefined]

InitTpl == MachineInit /\ arg \in TplInputs /\ res = Undefined

\* updateContent up to the first await of applyTemplates, line 619
TplStart ==
  /\ res = Undefined
  /\ \E o \in {applyTemplatesFrom(1, TplConfig(arg), TplShadow(arg), TplHass(arg))} :
       res' = TplPass(o, 0, Undefined)
  /\ UNCHANGED <<machine, arg>>

\* the host call settles and applyTemplates goes on
TplReply(rendered) ==
  /\ res # Undefined
  /\ res.status = "await"
  /\ \E o \in {applyTemplatesResume(res.tpl.i, res.tpl.tpl, rendered, TplConfig(arg),
                                    res.shadowConfig, TplHass(arg))} :
       res' = TplPass(o, res.calls, rendered)
  /\ UNCHANGED <<machine, arg>>

\* updateContent after applyTemplates returned, lines 621-634
TplRender ==
  /\ res # Undefined
  /\ res.status = "done"
  /\ ~computeDisplayTextsThrows(TplConfig(arg), TplHass(arg))
  /\ \E w \in {renderTexts(TplConfig(arg), res.shadowConfig, TplHass(arg),
                           World(NoTree, Null, <<>>, {}, <<>>))} :
       res' = [res EXCEPT !.status = "rendered", !.w = w]
  /\ UNCHANGED <<machine, arg>>

NextTpl ==
  \/ TplStart
  \/ \E rendered \in TplAnswers : TplReply(rendered)
  \/ TplRender

SpecTpl == InitTpl /\ [][NextTpl]_vars

----------------------------------------------------------------------------
(* The texts and styles shown for drawn configurations (specification SpecShow) *)

\* the four style properties with the style field each is applied to
StyleProps ==
  [size |-> "fontSize", font_weight |-> "fontWeight", color |-> "color",
   font |-> "fontFamily"]

\* the values a patch sets: in an element's group, and at the root
OwnStyle == [size |-> Whole(64), font_weight |-> Str("bold"), color |-> Str("#111111"),
             font |-> Str("Rubik")]

RootStyle == [size |-> Str("32"), font_weight |-> Str("300"), color |-> Str("#222222"),
              font |-> Str("Rubik Dirt")]

\* what is drawn: the entity reference, the shape of the snapshot, the unit
\* override and the unit the entity reports, a text and an attribute name
\* for the title or the subtitle, and one style property set in every
\* element's group (own), at the root (root), in both or in neither
ShowInputs ==
  [entity_id : {Undefined, Str(Entity)},
   shape : {"none", "missing", "has"},
   unit : {Undefined, Str("kWh")},
   unitAttr : {Undefined, Str("C")},
   group : {"title", "subtitle"},
   text : {Undefined, Str("Hall"), Str("{{ a }}")},
   attribute : {Undefined, Str("friendly_name")},
   prop : DOMAIN StyleProps,
   own : BOOLEAN,
   root : BOOLEAN]

ShowPatch(a) ==
  LET own == IF a.own THEN a.prop :> OwnStyle[a.prop] ELSE <<>>
      texts(g) == IF g = a.group
                  THEN Optional("text", a.text) @@ Optional("attribute", a.attribute)
                  ELSE <<>>
  IN  Obj(Optional("entity_id", a.entity_id)
            @@ (IF a.root THEN a.prop :> RootStyle[a.prop] ELSE <<>>)
            @@ [number |-> Obj(own),
                unit_of_measurement |-> Obj(Optional("display_text", a.unit) @@ own),
                title |-> Obj([display |-> Bool(TRUE)] @@ texts("title") @@ own),
                subtitle |-> Obj([display |-> Bool(TRUE)] @@ texts("subtitle") @@ own)])

\* the shadow configuration: the clone of line 916, with the result of the
\* host call when the text is a template
ShowShadow(a) ==
  IF IsTemplate(Coalesce(a.text, Null))
  THEN AssignShadow(ShadowClone(EffectiveConfig(ShowPatch(a))), a.group, "text",
                    Str("Kitchen")).shadowConfig
  ELSE ShadowClone(EffectiveConfig(ShowPatch(a)))

ShowHass(a) ==
  CASE a.shape = "none" -> Undefined
    [] a.shape = "missing" ->
         Obj([states |-> Obj("sensor.other" :> StateRecord("1", "C")), callApi |-> Fn])
    [] OTHER ->
         Snapshot(Obj([state |-> Str("21.456"),
                       attributes |-> Obj([friendly_name |-> Str("Sensor T")]
                                          @@ Optional("unit_of_measurement", a.unitAttr))]))

InitShow == MachineInit /\ arg \in ShowInputs /\ res = Undefined

\* computeDisplayTexts and the first render, lines 621-634
Show ==
  /\ res = Undefined
  /\ \E c \in {EffectiveConfig(ShowPatch(arg))} :
     \E sc \in {ShowShadow(arg)} :
     \E h \in {ShowHass(arg)} :
       res' = [texts |-> computeDisplayTexts(c, sc, h),
               w |-> renderTexts(c, sc, h, World(NoTree, Null, <<>>, {}, <<>>))]
  /\ UNCHANGED <<machine, arg>>

NextShow == Show

SpecShow == InitShow /\ [][NextShow]_vars

----------------------------------------------------------------------------
(* Sequences of font requests on one instance (specification SpecFont) *)

MaxRequests == 3

\* the labels requested: none, the default one, registered ones, one no
\* registry entry exists for, and one that names a member of Object.prototype
FontLabels ==
  {Null, Str(""), Str("Home Assistant"), Str("Rubik"), Str("Rubik Dirt"),
   Str("Comic Sans"), Str("constructor")}

\* a new instance (lines 298-311: loadedFonts is an empty Set) and the
\* labels requested of it so far
InitFont ==
  /\ MachineInit
  /\ arg = Undefined
  /\ res = [w |-> World(NoTree, Null, <<>>, {}, <<>>), requested |-> <<>>]

FontRequest(font) ==
  /\ Len(res.requested) < MaxRequests
  /\ res' = [w |-> loadFont(res.w, font), requested |-> Append(res.requested, font)]
  /\ UNCHANGED <<machine, arg>>

NextFont == \E font \in FontLabels : FontRequest(font)

SpecFont == InitFont /\ [][NextFont]_vars

----------------------------------------------------------------------------
(* A render after an earlier one, per animation kind (specification SpecKind) *)

AnimationKinds ==
  {Null, Str("none"), Str("shake"), Str("fade"), Str("zoom"), Str("stretch"),
   Str("slide-horizontal"), Str("slide-vertical"), Str("constructor"), Str("toString")}

\* what is drawn: the text an earlier render displayed (undefined: there was
\* none), the text to display now, and the configured animation
KindInputs == [first : {Undefined, Str("1"), Str("2")}, text : {"1", "2"}, kind : AnimationKinds]

KindConfig(text, kind) == EffectiveConfig(Obj([text |-> Str(text), animation |-> kind]))

InitKind == MachineInit /\ arg \in KindInputs /\ res = Undefined

\* the instance before the render: new, or after the render of arg.first
KindBefore ==
  /\ res = Undefined
  /\ \E w \in {World(NoTree, Null, <<>>, {}, <<>>)} :
     \E c \in {IF arg.first = Undefined THEN Undefined
               ELSE KindConfig(arg.first.v, arg.kind)} :
       res' = [stage |-> "before",
               before |-> IF c = Undefined THEN w
                          ELSE renderTexts(c, ShadowClone(c), Undefined, w)]
  /\ UNCHANGED <<machine, arg>>

\* lines 621-634 with the text arg.text
KindRender ==
  /\ res # Undefined
  /\ res.stage = "before"
  /\ \E c \in {KindConfig(arg.text, arg.kind)} :
       res' = [stage |-> "rendered", before |-> res.before,
               after |-> renderTexts(c, ShadowClone(c), Undefined, res.before)]
  /\ UNCHANGED <<machine, arg>>

NextKind == KindBefore \/ KindRender

SpecKind == InitKind /\ [][NextKind]_vars

----------------------------------------------------------------------------
(* deepMerge and the writes of applyTemplates on objects with identity *)

\* a reference to the object at address a of a heap; a heap is a sequence
\* of objects, an object maps its keys to cells, a cell is a reference or a
\* value that is no mapping (arrays are held as values: no code writes
\* into one)
Ref(a) == [t |-> "ref", a |-> a]

RECURSIVE HeapStore(_, _)
RECURSIVE HeapStoreKeys(_, _, _, _)
\* the object literal v built on the heap: the new heap and the cell for v
HeapStore(heap, v) ==
  IF v.t # "object" THEN [heap |-> heap, cell |-> v]
  ELSE With(Len(heap) + 1, LAMBDA a :
         [heap |-> HeapStoreKeys(Append(heap, <<>>), a, v, DOMAIN v.v),
          cell |-> Ref(a)])

HeapStoreKeys(heap, a, v, ks) ==
  IF ks = {} THEN heap
  ELSE With(CHOOSE k \in ks : TRUE, LAMBDA k :
       With(HeapStore(heap, v.v[k]), LAMBDA r :
         HeapStoreKeys([r.heap EXCEPT ![a] = (k :> r.cell) @@ @], a, v, ks \ {k})))

RECURSIVE HeapLoad(_, _)
\* the value a cell stands for
HeapLoad(heap, c) ==
  IF c.t # "ref" THEN c
  ELSE Obj([k \in DOMAIN heap[c.a] |-> HeapLoad(heap, heap[c.a][k])])

RECURSIVE HeapReach(_, _)
\* the objects reachable from a cell
HeapReach(heap, c) ==
  IF c.t # "ref" THEN {}
  ELSE {c.a} \cup UNION {HeapReach(heap, heap[c.a][k]) : k \in DOMAIN heap[c.a]}

\* c[k]
HeapGet(heap, c, k) ==
  IF c.t = "ref"
  THEN IF k \in DOMAIN heap[c.a] THEN heap[c.a][k] ELSE Undefined
  ELSE Get(c, k)

RECURSIVE deepMergeRef(_, _, _)
RECURSIVE deepMergeRefKeys(_, _, _, _, _)
\* deepMerge, lines 859-874, on cells: out is a new object holding the
\* cells of target (line 860, a shallow copy), and every key of source is
\* written into it, a mapping merged into a new object (line 866), any
\* other value as it is (line 868)
deepMergeRef(heap, target, source) ==
  With(Len(heap) + 1, LAMBDA out :
    [heap |-> deepMergeRefKeys(
                Append(heap, IF target.t = "ref" THEN heap[target.a] ELSE Spread(target)),
                out, target, source,
                IF source.t = "ref" THEN DOMAIN heap[source.a]
                ELSE IF IsArray(source) THEN Keys(source) ELSE {}),
     cell |-> Ref(out)])

deepMergeRefKeys(heap, out, target, source, ks) ==
  IF ks = {} THEN heap
  ELSE With(CHOOSE k \in ks : TRUE, LAMBDA key :
       With(HeapGet(heap, source, key), LAMBDA val :
         IF val.t = "ref"
         THEN With(IF target.t = "ref" \/ Truthy(target)
                   THEN [heap |-> heap, cell |-> HeapGet(heap, target, key)]
                   ELSE HeapStore(heap, EmptyObj), LAMBDA t :
              With(deepMergeRef(t.heap, t.cell, val), LAMBDA r :
                deepMergeRefKeys([r.heap EXCEPT ![out] = (key :> r.cell) @@ @],
                                 out, target, source, ks \ {key})))
         ELSE deepMergeRefKeys([heap EXCEPT ![out] = (key :> val) @@ @],
                               out, target, source, ks \ {key})))

\* deepMerge({}, c): lines 309, 310 and 916
CloneRef(heap, c) ==
  With(HeapStore(heap, EmptyObj), LAMBDA e : deepMergeRef(e.heap, e.cell, c))

\* this.shadowConfig sharing the tree of this.config
ShadowCloneShared(heap, c) == [heap |-> heap, cell |-> c]

\* line 916 (and line 310): this.shadowConfig = deepMerge({}, this.config)
ShadowCloneRef(heap, c) == CloneRef(heap, c)

\* the most configurations applied in a run of SpecHeap
MaxApplies == 2

\* the configurations applied
HeapPatches ==
  {Undefined,
   Obj([entity_id |-> Str(Entity),
        title |-> Obj([display |-> Bool(TRUE), text |-> Str("{{ area }}")])]),
   Obj([card |-> Obj([background |-> Str("{{ bg }}")]), number |-> Null,
        extra |-> Arr(<<Whole(1), Whole(2)>>)]),
   Obj([subtitle |-> Obj([text |-> Str("Room")]), title |-> Str("Hello")])}

\* what applyTemplates writes into a shadow field
HeapWrites == {Str("Kitchen"), Null}

\* the module constant and the two fields after the constructor, lines
\* 123-167 and 309-310
HeapConstructed ==
  With(HeapStore(<<>>, DEFAULT_CONFIG), LAMBDA d :
  With(CloneRef(d.heap, d.cell), LAMBDA c :
  With(ShadowCloneRef(c.heap, c.cell), LAMBDA sc :
    [heap |-> sc.heap, defaults |-> d.cell, config |-> c.cell,
     shadowConfig |-> sc.cell, applies |-> 0, writes |-> 0])))

InitHeap == MachineInit /\ arg = Undefined /\ res = HeapConstructed

\* _applyConfig, lines 914-916, with the object the host passed
HeapApplyConfig(p) ==
  /\ res.applies < MaxApplies
  /\ \E patch \in {HeapStore(res.heap, OrElse(p, EmptyObj))} :
     \E c \in {deepMergeRef(patch.heap, res.defaults, patch.cell)} :
     \E sc \in {ShadowCloneRef(c.heap, c.cell)} :
       res' = [res EXCEPT !.heap = sc.heap, !.config = c.cell,
                          !.shadowConfig = sc.cell, !.applies = @ + 1]
  /\ arg' = p
  /\ UNCHANGED machine

\* the writes of one section of applyTemplates: this.shadowConfig[group] =
\* this.shadowConfig[group] || {} (lines 456, 494, 526), then
\* this.shadowConfig[group][key] = x (lines 472-487, 508-520, 540-552),
\* which throws on a primitive
HeapAssign(i, x) ==
  LET group == Sections[i].group
      key == Sections[i].key
      cfg == HeapGet(res.heap, res.config, group)
      old == HeapGet(res.heap, res.shadowConfig, group)
  IN  /\ cfg.t = "ref" \/ Truthy(cfg)
      /\ \E g \in {IF old.t = "ref" \/ Truthy(old)
                   THEN [heap |-> res.heap, cell |-> old]
                   ELSE HeapStore(res.heap, EmptyObj)} :
         \E h \in {[g.heap EXCEPT ![res.shadowConfig.a] = (group :> g.cell) @@ @]} :
           res' = [res EXCEPT
                     !.heap = IF g.cell.t = "ref"
                              THEN [h EXCEPT ![g.cell.a] = (key :> x) @@ @]
                              ELSE h,
                     !.writes = IF @ < 2 THEN @ + 1 ELSE @]
      /\ UNCHANGED <<machine, arg>>

NextHeap ==
  \/ \E p \in HeapPatches : HeapApplyConfig(p)
  \/ \E i \in 1..Len(Sections), x \in HeapWrites : HeapAssign(i, x)

SpecHeap == InitHeap /\ [][NextHeap]_vars

----------------------------------------------------------------------------
(* Properties of the state machine (specification Spec) *)

ConfigTimers == {i \in 1..Len(timers) : timers[i].kind = "config"}

AnimationTimers == {i \in 1..Len(timers) : timers[i].kind \in {"swap", "cleanup"}}

\* the animation kinds the README lists
RecognizedKinds == {"fade", "slide-horizontal", "slide-vertical", "zoom", "stretch"}

\* C1 (as claimed): over a run of pushes of one snapshot, with no
\* configuration applied in between, the render passes those pushes started
\* write the number element at most once, however the pushes interleave
\* with the passes.
C1_ChangeGate == hist.runRenders <= 1

\* C2: at most one debounce timer is outstanding; while one is, nothing has
\* been applied since the last setConfig call; the timer's callback runs
\* SET_CONFIG_DEBOUNCE_MS after the last call, is the only application since
\* that call, and leaves the effective configuration of the last call's
\* argument.
C2_Debounce ==
  /\ Cardinality(ConfigTimers) <= 1
  /\ hist.appliesSinceCall <= 1
  /\ \A i \in ConfigTimers :
       /\ timers[i].rem + timers[i].age = SET_CONFIG_DEBOUNCE_MS
       /\ setConfigTimer = Num(timers[i].id)
       /\ hist.calls >= 1
       /\ hist.appliesSinceCall = 0
  /\ ev.op = "applyConfig" =>
       /\ ev.timer.kind = "config"
       /\ ev.timer.age = SET_CONFIG_DEBOUNCE_MS
       /\ ev.calls >= 1
       /\ config = deepMerge(DEFAULT_CONFIG, ev.arg)
       /\ hist.appliesSinceCall = 1
       /\ ConfigTimers = {}

\* a burst of two or more setConfig calls has just been applied
C2_Witness == ev.op = "applyConfig" /\ ev.calls = 2

\* C3 (as claimed): a push that changes one of the four derived texts starts
\* a render pass.
C3_RerenderOnStateChange ==
  (/\ ev.op = "hass"
   /\ computeDisplayTexts(config, shadowConfig, hass)
        # computeDisplayTexts(config, shadowConfig, ev.hass))
    => ev.started

\* C7: a render pass that starts a transition leaves the old text, puts the
\* kind's out class alone on the element and sets one timer of ANIMATION_MS
\* holding the new text; that timer's callback, ANIMATION_MS later, writes
\* the text, takes the out class off, puts the in class on and sets a second
\* timer of ANIMATION_MS; the second callback, ANIMATION_MS later, takes the
\* in class off, and no animation class is left when no other transition's
\* timer is pending.  No other step writes the text or a class.
C7_AnimationSequencing ==
  /\ (ev.op = "render" /\ Len(timers) > ev.nTimers) =>
       LET t == timers[Len(timers)]
       IN  /\ Len(timers) = ev.nTimers + 1
           /\ t.kind = "swap" /\ t.rem = ANIMATION_MS /\ t.age = 0
           /\ t.newValue = previousDisplayValue.v
           /\ \E k \in RecognizedKinds :
                /\ Get(config, "animation") = Str(k)
                /\ t.animations = animationMap[k]
           /\ t.animations.out # t.animations.inn
           /\ dom.number.classes = {t.animations.out}
           /\ dom.number.text = ev.textBefore
  /\ ev.op = "swap" =>
       LET t == timers[Len(timers)]
       IN  /\ ev.timer.kind = "swap" /\ ev.timer.age = ANIMATION_MS
           /\ dom.number.text = ev.timer.newValue
           /\ dom.number.classes =
                (ev.classesBefore \ {ev.timer.animations.out})
                  \cup {ev.timer.animations.inn}
           /\ Len(timers) = ev.nTimers
           /\ t.kind = "cleanup" /\ t.rem = ANIMATION_MS /\ t.age = 0
           /\ t.animations = ev.timer.animations
  /\ ev.op = "cleanup" =>
       /\ ev.timer.kind = "cleanup" /\ ev.timer.age = ANIMATION_MS
       /\ dom.number.classes = ev.classesBefore \ {ev.timer.animations.inn}
       /\ dom.number.text = ev.textBefore
       /\ Len(timers) = ev.nTimers - 1
       /\ (AnimationTimers = {} => dom.number.classes = {})
  /\ ev.op \notin {"render", "swap"} => dom.number.text = ev.textBefore
  /\ ev.op \notin {"render", "swap", "cleanup"} =>
       dom.number.classes = ev.classesBefore

\* a transition has run to its end: the second callback took the in class
\* off the element, which shows the new text
C7_Witness ==
  /\ ev.op = "cleanup"
  /\ ev.classesBefore = {ev.timer.animations.inn}
  /\ dom.number.classes = {}
  /\ dom.number.text = ev.timer.newValue

----------------------------------------------------------------------------
(* Properties of computeDisplayTexts (specification SpecFmt) *)

Formatted == res # Undefined

NoEntity == arg.entity_id \in {Undefined, Str("")}

\* the number a drawn primary value stands for, in thousandths
ValueOf(state) == (CHOOSE n \in NumericStates : n.s = state).x

IsNumericState == arg.shape = "has" /\ arg.state \in {n.s : n \in NumericStates}

\* the number of digits after the point
FractionDigits(text) == IF DotAt(text) = 0 THEN 0 ELSE Len(text) - DotAt(text)

\* text is x (in thousandths) rounded to k places, a tie away from zero: it
\* has k fraction digits, those after the third are zeros, and the number it
\* reads as is the multiple of 10^-k nearest to x
RoundedTo(text, x, k) ==
  LET kk == IF k < 3 THEN k ELSE 3
      unit == Pow10(3 - kk)
      shown == SubSeq(text, 1, Len(text) - (k - kk))
      r == StringToNumber(shown)
  IN  /\ text # "" /\ text = Trim(text)
      /\ FractionDigits(text) = k
      /\ SubSeq(text, Len(text) - (k - kk) + 1, Len(text)) = Zeros(k - kk)
      /\ r.t = "number"
      /\ r.v % unit = 0
      /\ 2 * Abs(r.v - x) <= unit
      /\ (2 * Abs(r.v - x) = unit => Abs(r.v) > Abs(x))
      /\ (Head(text) = "-") <=> (x < 0)

\* text is the shortest decimal that reads as x
Unrounded(text, x) ==
  /\ text # "" /\ text = Trim(text)
  /\ StringToNumber(text) = Num(x)
  /\ Head(text) # "+"
  /\ DotAt(text) # 0 => SubSeq(text, Len(text), Len(text)) \notin {"0", "."}

\* C4: without an entity reference the value text is the static text ("" when
\* there is none); with one and no snapshot (or a snapshot without states) it
\* is "loading"; with a snapshot that has no record under the key it is
\* "unknown".
C4_MainValueWithoutState ==
  Formatted =>
    /\ NoEntity =>
         res.state_display_text = (IF arg.text \in {Undefined, Null} THEN "" ELSE arg.text.v)
    /\ (~NoEntity /\ arg.shape \in {"none", "nostates"}) =>
         res.state_display_text = "loading"
    /\ (~NoEntity /\ arg.shape \in {"empty", "other"}) =>
         res.state_display_text = "unknown"

\* an entity is configured and the snapshot holds other entities only
C4_Witness ==
  /\ Formatted
  /\ arg.entity_id = Str(Entity)
  /\ arg.shape = "other"
  /\ res.state_display_text = "unknown"

\* what Number() makes of a drawn decimals setting: a number, or NaN
DecimalsNumber(d) ==
  CASE d.t = "number" -> d
    [] d = Str("2") -> Whole(2)
    [] d = Str("") -> Whole(0)
    [] OTHER -> NaN

C6_NonNumericVerbatim ==
  (Formatted /\ ~NoEntity /\ arg.shape = "has" /\ arg.state \in NonNumericStates) =>
    res.state_display_text = arg.state

\* "unavailable" under decimals 2
C6_Witness ==
  /\ Formatted
  /\ arg.entity_id = Str(Entity)
  /\ arg.shape = "has" /\ arg.state = "unavailable"
  /\ arg.decimals = Whole(2)
  /\ res.state_display_text = "unavailable"

----------------------------------------------------------------------------
(* Properties of deepMerge (specification SpecMerge) *)

Merged == res # Undefined

\* the nested groups of DEFAULT_CONFIG
NestedGroups == {k \in Keys(DEFAULT_CONFIG) : Get(DEFAULT_CONFIG, k).t = "object"}

IsScalar(v) == v.t \in {"string", "number", "boolean", "null", "nan"}

RECURSIVE HasEveryKey(_, _)
\* m holds every key of d, at every nesting level
HasEveryKey(d, m) ==
  /\ m.t = "object"
  /\ \A k \in Keys(d) :
       /\ k \in Keys(m)
       /\ Get(d, k).t = "object" => HasEveryKey(Get(d, k), Get(m, k))

\* C9 (as claimed): the merge of a patch onto the defaults holds every key of
\* the defaults at every level and every key of the patch; a scalar or a
\* sequence of the patch is the merged value; a mapping of the patch is
\* merged key by key onto the default mapping.
C9_MergeTotal ==
  (Merged /\ arg.t = "object") =>
    /\ HasEveryKey(DEFAULT_CONFIG, res)
    /\ \A k \in Keys(arg) :
         LET p == Get(arg, k)
             d == Get(DEFAULT_CONFIG, k)
         IN  /\ k \in Keys(res)
             /\ (IsScalar(p) \/ IsArray(p)) => Get(res, k) = p
             /\ p.t = "object" =>
                  /\ \A j \in Keys(p) : Get(Get(res, k), j) = Get(p, j)
                  /\ \A j \in Keys(d) \ Keys(p) : Get(Get(res, k), j) = Get(d, j)

\* C10 (as claimed): in the effective configuration every nested group is a
\* mapping with all its default keys, and is the default group when the patch
\* holds null or a scalar in its place.
C10_MalformedFallsToDefault ==
  Merged =>
    \A g \in NestedGroups :
      /\ Get(res, g).t = "object"
      /\ Keys(Get(DEFAULT_CONFIG, g)) \subseteq Keys(Get(res, g))
      /\ (arg.t = "object" /\ g \in Keys(arg) /\ IsScalar(Get(arg, g))) =>
           Get(res, g) = Get(DEFAULT_CONFIG, g)

\* C12: merging the effective configuration of a patch onto the defaults
\* again gives that effective configuration: merge(D, merge(D, P)) =
\* merge(D, P).
C12_MergeIdempotent == Merged => deepMerge(DEFAULT_CONFIG, res) = res

\* a patch with a mapping, a null and a scalar in the place of nested
\* groups and a sequence under a new key has been merged
C12_Witness ==
  /\ Merged
  /\ arg.t = "object"
  /\ Get(arg, "number") = Obj([decimals |-> Whole(2)])
  /\ Get(arg, "card") = Null
  /\ Get(arg, "title") = Str("Hello")
  /\ Get(arg, "extra").t = "array"
  /\ Get(Get(res, "number"), "decimals") = Whole(2)
  /\ Get(res, "card") = Null


----------------------------------------------------------------------------
(* Properties of the object identities (specification SpecHeap) *)

\* C11: the merge returns a new object and leaves DEFAULT_CONFIG as it was;
\* after any configurations applied and any writes of the template
\* resolution into the shadow configuration, DEFAULT_CONFIG holds its
\* values, the effective configuration holds the merge of the last patch,
\* and no object of the shadow configuration is an object of either.
C11_DefaultsNeverMutated ==
  (res # Undefined /\ "heap" \in DOMAIN res) =>
    /\ HeapLoad(res.heap, res.defaults) = DEFAULT_CONFIG
    /\ HeapLoad(res.heap, res.config) =
         (IF res.applies = 0 THEN deepMerge(EmptyObj, DEFAULT_CONFIG)
          ELSE EffectiveConfig(arg))
    /\ res.config # res.defaults
    /\ HeapReach(res.heap, res.shadowConfig)
         \cap (HeapReach(res.heap, res.config) \cup HeapReach(res.heap, res.defaults))
         = {}

\* a rendered title has been written into the shadow configuration of a
\* configuration that shares its untouched groups with DEFAULT_CONFIG
C11_Witness ==
  /\ res # Undefined /\ "heap" \in DOMAIN res
  /\ res.applies >= 1 /\ res.writes >= 1
  /\ Get(Get(HeapLoad(res.heap, res.shadowConfig), "title"), "text") = Str("Kitchen")
  /\ Get(Get(HeapLoad(res.heap, res.config), "title"), "text") = Str("{{ area }}")
  /\ HeapReach(res.heap, res.config) \cap HeapReach(res.heap, res.defaults) # {}

----------------------------------------------------------------------------
(* Properties of a render pass (specification SpecTpl) *)

\* the pass has run applyTemplates to its end
TplSettled == res # Undefined /\ "calls" \in DOMAIN res /\ res.status \in {"done", "rendered"}

\* the shadow field of the pass
TplField == Get(Get(res.shadowConfig, Sections[arg.i].group), Sections[arg.i].key)

\* the host call of the pass gave a usable result
TplSucceeded ==
  /\ arg.host = "call"
  /\ res.answer.t = "string"
  /\ Trim(res.answer.v) # ""

\* C13 (as claimed): for each of the three fields holding a template, a
\* successful host call leaves the trimmed result in the shadow field; an
\* empty or non-string result, a rejected call or no host call leaves the
\* previous shadow value if there is one, the raw template otherwise.
C13_TemplateFallback ==
  (TplSettled /\ IsTemplate(arg.value)) =>
    /\ TplSucceeded => TplField = Str(Trim(res.answer.v))
    /\ ~TplSucceeded => TplField = (IF arg.prev = Undefined THEN arg.value ELSE arg.prev)

\* C14 (as claimed): a field whose value holds neither delimiter is copied
\* into the shadow configuration as it is and no host call is made.
C14_NonTemplateBypass ==
  (TplSettled /\ ~IsTemplate(arg.value)) =>
    /\ TplField = arg.value
    /\ res.calls = 0

\* the template of the pass was not resolved: no host call to make, a
\* rejected call, or a result that is empty or no string
TplFailed ==
  /\ IsTemplate(arg.value)
  /\ arg.host # "call" \/ (res.answer # Undefined /\ ~TplSucceeded)

\* C20: a pass whose template is not resolved leaves applyTemplates without
\* an exception, can go on to render, and once rendered has built the card,
\* written the four derived texts into the elements shown and recorded the
\* main-value text as the displayed value.
C20_FailuresNeverHalt ==
  (res # Undefined /\ "calls" \in DOMAIN res /\ TplFailed) =>
    /\ res.status \in {"done", "rendered"}
    /\ res.status = "done" => ~computeDisplayTextsThrows(TplConfig(arg), TplHass(arg))
    /\ res.status = "rendered" =>
         LET texts == computeDisplayTexts(TplConfig(arg), res.shadowConfig, TplHass(arg))
             shown(g) == Truthy(Get(Get(TplConfig(arg), g), "display"))
         IN  /\ res.w.dom.content
             /\ res.w.dom.number.attached
             /\ res.w.dom.number.text = texts.state_display_text
             /\ res.w.previousDisplayValue = Str(texts.state_display_text)
             /\ res.w.dom.unit.text = texts.unit_of_measurement_text
             /\ res.w.dom.title.text = (IF shown("title") THEN texts.title_text ELSE "")
             /\ res.w.dom.subtitle.text =
                  (IF shown("subtitle") THEN texts.subtitle_text ELSE "")

\* the host rejected the call for the title: the pass rendered the number
\* and shows the raw template as the title
C20_Witness ==
  /\ res # Undefined /\ "calls" \in DOMAIN res
  /\ arg.i = 2 /\ arg.value = Str("{{ a }}") /\ arg.prev = Undefined
  /\ res.answer = Rejected
  /\ res.status = "rendered"
  /\ res.w.dom.number.text = "21.5"
  /\ res.w.previousDisplayValue = Str("21.5")
  /\ res.w.dom.title.text = "{{ a }}"

----------------------------------------------------------------------------
(* Properties of the shadow configuration (specification Spec) *)

\* every value of the configuration that is no template is the shadow's
ShadowAgrees ==
  \A g \in Keys(config) :
    LET c == Get(config, g)
        sc == Get(shadowConfig, g)
    IN  IF c.t = "object"
        THEN /\ sc.t = "object"
             /\ \A k \in Keys(c) : ~IsTemplate(Get(c, k)) => Get(sc, k) = Get(c, k)
        ELSE ~IsTemplate(c) => sc = c

\* C15 (as claimed): with no render pass in flight, every field of the
\* shadow configuration whose configured value is no template equals the
\* configured value.
C15_ShadowInvariant == (micro = <<>> /\ awaiting = EmptyBag) => ShadowAgrees

----------------------------------------------------------------------------
(* Properties of the texts and styles shown (specification SpecShow) *)

Shown == res # Undefined /\ "texts" \in DOMAIN res

\* the snapshot holds a state record for the configured entity
HasRecord == arg.entity_id # Undefined /\ arg.shape = "has"

\* C16 (as claimed): the unit text is the override whenever one is
\* configured; without an override it is the unit the entity reports; it is
\* empty when there is neither.
C16_UnitPrecedence ==
  Shown =>
    res.texts.unit_of_measurement_text =
      (IF arg.unit # Undefined THEN arg.unit.v
       ELSE IF HasRecord /\ arg.unitAttr # Undefined THEN arg.unitAttr.v
       ELSE "")

\* C17 (as claimed): the title (subtitle) text is the shadow configuration's
\* text whenever a text is configured, whatever the attribute; the entity's
\* attribute is used when no text is configured; with neither the text is
\* empty and the element is not shown.
C17_TitlePrecedence ==
  Shown =>
    LET derived == IF arg.group = "title" THEN res.texts.title_text
                   ELSE res.texts.subtitle_text
    IN  /\ derived =
             (IF arg.text # Undefined
              THEN Get(Get(ShowShadow(arg), arg.group), "text").v
              ELSE IF HasRecord /\ arg.attribute # Undefined THEN "Sensor T"
              ELSE "")
        /\ (arg.text = Undefined /\ arg.attribute = Undefined) =>
             /\ derived = ""
             /\ ~res.w.dom[arg.group].attached

\* the style a value is applied as: a size in px, the default font label
\* as the card header's font
AppliedStyle(prop, v) ==
  CASE prop = "size" -> Str(StringOf(v) \o "px")
    [] prop = "font" /\ v = Str("Home Assistant") ->
         Str("var(--ha-card-header-font-family, inherit)")
    [] OTHER -> v

\* C18 (as claimed): on every element shown, the drawn property is applied
\* from the element's own value if set, else from the root-level value if
\* set, else from the built-in default.
C18_StyleCascade ==
  Shown =>
    \A e \in {"number", "unit", "title", "subtitle"} :
      res.w.dom[e].attached =>
        res.w.dom[e].style[StyleProps[arg.prop]] =
          AppliedStyle(arg.prop,
                       IF arg.own THEN OwnStyle[arg.prop]
                       ELSE IF arg.root THEN RootStyle[arg.prop]
                       ELSE Get(DEFAULT_CONFIG, arg.prop))

----------------------------------------------------------------------------
(* Properties of the font loader (specification SpecFont) *)

Requested == {res.requested[i] : i \in 1..Len(res.requested)}

\* the labels FONT_REGISTRY lists with a stylesheet URL
RegisteredLabels == {Str(f) : f \in {g \in DOMAIN FONT_REGISTRY : Truthy(FONT_REGISTRY[g])}}

\* the stylesheet URLs of the registered labels of a sequence of requests,
\* each at its first request
RECURSIVE FirstInjections(_, _)
FirstInjections(requested, seen) ==
  IF requested = <<>> THEN <<>>
  ELSE LET f == Head(requested)
       IN  IF f \in RegisteredLabels /\ f \notin seen
           THEN <<FONT_REGISTRY[f.v].v>> \o FirstInjections(Tail(requested), seen \cup {f})
           ELSE FirstInjections(Tail(requested), seen \cup {f})

\* C19 (as claimed): the stylesheets injected are those of the registered
\* labels requested, one each, in the order of their first requests; the
\* default label and labels without a registry entry inject nothing; the
\* labels remembered are exactly the non-default labels requested.
C19_FontLoaderIdempotence ==
  (res # Undefined /\ "requested" \in DOMAIN res) =>
    /\ res.w.headLinks = FirstInjections(res.requested, {})
    /\ res.w.loadedFonts = {f \in Requested : Truthy(f) /\ f # Str("Home Assistant")}

----------------------------------------------------------------------------
(* Properties of the animation trigger (specification SpecKind) *)

\* C8 (as claimed): a render starts the transition (sets a timer) exactly
\* when a displayed value is recorded, the new text differs from it and the
\* configured kind is one of the five recognized kinds; in every other case
\* it writes the text at once, adds no class and sets no timer.
C8_TriggerPerKind ==
  (res # Undefined /\ "after" \in DOMAIN res) =>
    LET expected == /\ res.before.previousDisplayValue # Null
                    /\ res.before.previousDisplayValue # Str(arg.text)
                    /\ \E k \in RecognizedKinds : arg.kind = Str(k)
    IN  /\ (Len(res.after.timers) > Len(res.before.timers)) <=> expected
        /\ ~expected =>
             /\ res.after.dom.number.text = arg.text
             /\ res.after.dom.number.classes = res.before.dom.number.classes
             /\ res.after.timers = res.before.timers

----------------------------------------------------------------------------
(* Properties of the render gate and of the passes in flight (specification Spec) *)

\* the render passes in flight, without their history: how many resume in
\* the microtask queue, and how many await each host call
InFlight ==
  [micro |-> Len(micro),
   awaiting |-> {<<x.i, x.tpl, CopiesIn([x EXCEPT !.cur = TRUE], awaiting)
                                 + CopiesIn([x EXCEPT !.cur = FALSE], awaiting)>> :
                   x \in BagToSet(awaiting)}]

\* the step is a push or a configuration application whose candidate
\* main-value text equals the displayed-value record
GateClosedStep ==
  /\ ev'.op \in {"hass", "applyConfig"}
  /\ ~computeDisplayTextsThrows(config', hass')
  /\ previousDisplayValue =
       Str(computeDisplayTexts(config', shadowConfig', hass').state_display_text)

\* such a step starts no pass and no host call and leaves the element tree,
\* the displayed-value record, the fonts and the animation timers alone
GateSkips ==
  /\ InFlight' = InFlight
  /\ dom' = dom
  /\ previousDisplayValue' = previousDisplayValue
  /\ loadedFonts' = loadedFonts /\ headLinks' = headLinks
  /\ {timers'[i] : i \in AnimationTimers'} = {timers[i] : i \in AnimationTimers}

----------------------------------------------------------------------------
(* Properties of passes in flight together (specification SpecRace) *)

TitleText(c) == Get(Get(c, "title"), "text")

\* C22: a title host call that completes with a string leaves that string as
\* the shadow configuration's title text, whatever configuration the call
\* was made under and whatever passes are still in flight, so the call that
\* completes last decides; a call that fails leaves a text that is not the
\* empty string (the one already there, or the template it sent).
C22_LastCompletionWins ==
  ev.reply.i = 2 =>
    IF ev.reply.rendered.t = "string"
    THEN TitleText(shadowConfig) = ev.reply.rendered
    ELSE Truthy(TitleText(shadowConfig))

\* the call made for "{{ area }}" completed after the configuration with
\* "{{ room }}" was applied, while that configuration's own call was still
\* outstanding, and its result is in the new shadow configuration
C22_Witness ==
  /\ ev.reply.i = 2
  /\ ev.reply.tpl = Str("{{ area }}")
  /\ ev.reply.rendered = Str("Kitchen")
  /\ TitleText(config) = Str("{{ room }}")
  /\ TitleText(shadowConfig) = Str("Kitchen")
  /\ BagCardinality(awaiting) = 1
  /\ \A x \in BagToSet(awaiting) : x.tpl = Str("{{ room }}")

----------------------------------------------------------------------------
(* Properties of a configuration application (specification Spec) *)

\* C23: when the debounce timer's callback has applied the argument of the
\* last setConfig call, the effective configuration is the defaults merged
\* with that argument alone and the shadow configuration is a copy of it
\* (the part of applyTemplates that runs before the first await writes the
\* configured values again); its title text is the configured one, not one
\* resolved before.
C23_ReplacedNotPatched ==
  ev.op = "applyConfig" =>
    /\ config = deepMerge(DEFAULT_CONFIG, ev.arg)
    /\ shadowConfig = deepMerge(EmptyObj, config)
    /\ TitleText(shadowConfig) = TitleText(config)

\* the configuration applied sets neither an animation nor a title, after
\* one with animation "fade" whose title was resolved and is still shown
C23_Witness ==
  /\ ev.op = "applyConfig"
  /\ Get(ev.arg, "animation") = Undefined
  /\ Get(config, "animation") = Null
  /\ dom.title.attached /\ dom.title.text = " Kitchen "
  /\ TitleText(shadowConfig) = Null

----------------------------------------------------------------------------
(* Properties of the element tree (specification Spec) *)

----------------------------------------------------------------------------
(* Properties of an outstanding host call (specification Spec) *)

\* how many passes of a bag await the host call x awaits
AwaitingCopies(b, x) ==
  CopiesIn([x EXCEPT !.cur = TRUE], b) + CopiesIn([x EXCEPT !.cur = FALSE], b)

\* C25: a pass awaiting a host call stays so through every step but the
\* completion of a call (no timer, push or configuration ends it), a
\* completion ends one pass only, and the element tree and the
\* displayed-value record are written only by a timer callback of a
\* transition or by a pass that has no call outstanding any more.
C25_HungHostCall ==
  [][/\ ev'.reply = NoReply =>
          \A x \in BagToSet(awaiting) :
            AwaitingCopies(awaiting', x) >= AwaitingCopies(awaiting, x)
     /\ ev'.reply # NoReply =>
          BagCardinality(awaiting') >= BagCardinality(awaiting) - 1
     /\ (dom' # dom \/ previousDisplayValue' # previousDisplayValue) =>
          \/ ev'.op \in {"swap", "cleanup"}
          \/ /\ ev'.op = "render"
             /\ ev'.reply # NoReply \/ Len(micro') < Len(micro)]_vars

\* a pass started by the latest push has completed its host call and
\* rendered while an older pass still awaits its own
C25_Witness ==
  /\ ev.op = "render"
  /\ ev.reply # NoReply
  /\ ev.cur
  /\ \E x \in BagToSet(awaiting) : ~x.cur

----------------------------------------------------------------------------
(* Properties of the number element at rest (specification Spec) *)

\* no render pass is in flight and no timer of a transition is pending
Quiescent == micro = <<>> /\ awaiting = EmptyBag /\ AnimationTimers = {}

\* C26 (as claimed): whenever no render pass is in flight and no timer of a
\* transition is pending, the number element shows the displayed-value
\* record.
C26_QuiescentText ==
  (Quiescent /\ previousDisplayValue # Null) =>
    dom.number.text = previousDisplayValue.v

----------------------------------------------------------------------------
(* Properties of overlapping transitions (specification SpecAnim) *)

\* C27 (as claimed): the number element never carries more than one
\* animation class, and carries none when no timer of a transition is
\* pending.
C27_OneAnimationClass ==
  /\ Cardinality(dom.number.classes) <= 1
  /\ AnimationTimers = {} => dom.number.classes = {}

----------------------------------------------------------------------------
(* Properties of the displayed-value record (specification Spec) *)

\* the main-value text of the configuration and the snapshot now current
Candidate == computeDisplayTexts(config, shadowConfig, hass).state_display_text

\* C28: a pass that renders records the main-value text of the
\* configuration and the snapshot current when it renders; and when no pass
\* is in flight, after a push or a configuration application, the
\* displayed-value record is the main-value text of the latest snapshot and
\* the latest configuration.
C28_LatestSnapshotWins ==
  /\ ev.op = "render" => previousDisplayValue = Str(Candidate)
  /\ (/\ micro = <<>> /\ awaiting = EmptyBag
      /\ hass # Undefined \/ config # deepMerge(EmptyObj, DEFAULT_CONFIG)) =>
       previousDisplayValue = Str(Candidate)

\* a pass started before the latest snapshot was pushed has completed its
\* host call after the pass of that push rendered, and has rendered the
\* text of the latest snapshot
C28_Witness ==
  /\ ev.op = "render"
  /\ ~ev.cur
  /\ ev.reply # NoReply
  /\ hist.runRenders >= 1
  /\ micro = <<>> /\ awaiting = EmptyBag
  /\ previousDisplayValue = Str("21.4")
  /\ Candidate = "21.4"

----------------------------------------------------------------------------
(* Properties of pushes before the first configuration (specification Spec) *)

\* no configuration has been applied: this.config is the constructor's
Unconfigured == config = deepMerge(EmptyObj, DEFAULT_CONFIG)

\* C29: while no configuration has been applied, the first pushes each start
\* a render pass, no pass fails, and a pass that renders builds the tree
\* and shows the default static text, the empty string; the displayed-value
\* record is never "loading" or "unknown".
C29_PushBeforeConfiguration ==
  Unconfigured =>
    /\ (ev.op = "hass" /\ previousDisplayValue = Null) => ev.started
    /\ ev.op # "rejected"
    /\ ev.op = "render" =>
         /\ previousDisplayValue = Str("")
         /\ dom.cards = 1 /\ dom.number.attached /\ dom.number.text = ""
    /\ previousDisplayValue \in {Null, Str("")}

\* a push was rendered while a setConfig call was waiting in its debounce
\* window
C29_Witness ==
  /\ Unconfigured
  /\ ev.op = "render"
  /\ hass # Undefined
  /\ pendingConfig # Null /\ setConfigTimer # Null
  /\ previousDisplayValue = Str("")
  /\ dom.number.text = ""

----------------------------------------------------------------------------
(* Properties of the container's background (specification SpecCard) *)

ShadowBackground == Get(Get(shadowConfig, "card"), "background")

\* C30 (as claimed): when a render pass has rendered, the container's
\* background is the shadow configuration's card background, and the
\* container has none when the shadow configuration has none.
C30_BackgroundTracksShadow ==
  ev.op = "render" =>
    IF Truthy(ShadowBackground) THEN dom.background = ShadowBackground
    ELSE dom.background = Undefined

====
